---- MODULE Spec2Model ----
(***************************************************************************)
(* Rate-limit handling of mailerlite-api-v2-node.                          *)
(*                                                                         *)
(*   Spec        RateLimitHandler.handleRateLimit driven directly with an  *)
(*               arbitrary retryFn (src/rateLimit.ts)                      *)
(*   ClientSpec  an API call through the axios client built by             *)
(*               MailerLiteClient, whose response interceptors call the    *)
(*               handler and whose retryFn is client.request (client.ts)   *)
(*   ParseSpec   the pure functions of RateLimitHandler applied to         *)
(*               bounded sets of errors and header maps                    *)
(*   DecoratorSpec  one call of a function wrapped by withRateLimit        *)
(*               (rateLimitUtils.ts)                                       *)
(*   BatchSpec   RateLimitBatchProcessor.processAll (rateLimitUtils.ts)    *)
(*   UtilsSpec   the pure functions of RateLimitUtils applied to bounded   *)
(*               sets of states, arguments and errors                      *)
(*   SharedSpec  two call chains of handleRateLimit on one handler, their  *)
(*               steps interleaved                                         *)
(*                                                                         *)
(* JavaScript values are modelled as follows.  A string is Str(s) with s a  *)
(* sequence of one-character strings.  undefined and null are the records  *)
(* Undefined and Null.  A number is a record [nan, v] so NaN is a value.  A *)
(* Date is the number of its getTime().  An object is a finite function    *)
(* from keys to values.                                                    *)
(***************************************************************************)
EXTENDS Integers, Sequences, FiniteSets, TLC

VARIABLES
    \* ---- RateLimitHandler.handleRateLimit, one call sequence ----
    options,      \* the RateLimitOptions the handler was constructed with
    pc,           \* position of the call sequence
    error,        \* the `error` argument of the current invocation
    attempt,      \* the `attempt` argument of the current invocation
    pendingMs,    \* argument of the sleep in progress
    failures,     \* failures seen so far, the original one first
    requests,     \* requests issued so far, the original one included
    sleeps,       \* arguments of the sleeps started so far
    hits,         \* arguments of the onRateLimitHit invocations
    retries,      \* arguments of the onRateLimitRetry invocations
    trace,        \* order of the observable steps
    result,       \* how the call sequence settled
    now,          \* Date.now()
    \* ---- one API call through the client ----
    copts,        \* the Options MailerLiteClient was called with
    cstack,       \* active handleRateLimit invocations, outermost first
    cpc,          \* position of the innermost activity
    csent,        \* requests handed to the transport
    cserver,      \* answers the endpoint gave, in order
    csleeps,      \* arguments of the sleeps started so far
    chits,        \* arguments of the onRateLimitHit invocations
    cretries,     \* attempt numbers passed to onRateLimitRetry
    csettle,      \* settlement travelling up through the awaiting frames
    cresult,      \* how the API call settled
    cnow,         \* Date.now()
    \* ---- the pure functions of RateLimitHandler ----
    pin,          \* the error the function is applied to
    pt,           \* Date.now() at the application
    pout,         \* what the function returned
    ppc,          \* "input" before the application, "done" after
    \* ---- one call of a function wrapped by withRateLimit ----
    dmax,         \* maxRetries
    dpc,          \* position in the loop
    dattempt,     \* the loop variable attempt
    dcalls,       \* invocations of fn so far
    dfails,       \* errors fn has thrown so far
    dwaits,       \* waitForRateLimit calls so far
    dtrace,       \* order of the observable steps
    dresult,      \* how the wrapped call settled
    dnow,         \* Date.now()
    \* ---- RateLimitBatchProcessor ----
    bitems,       \* this.items
    bsize,        \* batchSize of the run in progress
    bcb,          \* whether onProgress was passed
    bpc,          \* position in processAll
    bi,           \* the loop variable i
    bj,           \* position in the current batch of the item being processed
    bcompleted,   \* the local completed
    bresults,     \* this.results
    berrors,      \* this.errors
    bouts,        \* outcome of every item operation of this run
    blog,         \* observable steps of this run, in order
    bwait,        \* the wait in progress
    bret,         \* what processAll returned
    bruns,        \* processAll calls started on this instance
    bnow,         \* Date.now()
    \* ---- the pure functions of RateLimitUtils ----
    uin,          \* the arguments the function is applied to
    ut,           \* Date.now() at the application
    uout,         \* what the function returned
    upc,          \* "input" before the application, "done" after
    \* ---- two call chains on one RateLimitHandler ----
    shopts,       \* the fields of the shared handler
    chains,       \* per chain: the locals and observations of its call sequence
    sclock        \* Date.now() of the process both chains run in

hvars == <<options, pc, error, attempt, pendingMs, failures, requests,
           sleeps, hits, retries, trace, result, now>>
cvars == <<copts, cstack, cpc, csent, cserver, csleeps, chits, cretries,
           csettle, cresult, cnow>>
pvars == <<pin, pt, pout, ppc>>
dvars == <<dmax, dpc, dattempt, dcalls, dfails, dwaits, dtrace, dresult, dnow>>
bvars == <<bitems, bsize, bcb, bpc, bi, bj, bcompleted, bresults, berrors,
           bouts, blog, bwait, bret, bruns, bnow>>
uvars == <<uin, ut, uout, upc>>
svars == <<shopts, chains, sclock>>
vars == <<hvars, cvars, pvars, dvars, bvars, uvars, svars>>

----------------------------------------------------------------------------
(* Bounds *)

MaxAttempts == 3      \* largest rateLimitRetryAttempts explored
MaxDepth == 4         \* deepest nesting of interceptor invocations explored
MaxSharedAttempts == 2  \* largest rateLimitRetryAttempts of a shared handler

----------------------------------------------------------------------------
(* JavaScript values *)

Undefined == [undefined |-> TRUE]
Str(s) == [str |-> s]
Null == [null |-> TRUE]
NaN == [nan |-> TRUE, v |-> 0]
Num(n) == [nan |-> FALSE, v |-> n]

Digits == <<"0", "1", "2", "3", "4", "5", "6", "7", "8", "9">>
IsDigit(c) == \E i \in 1..10 : Digits[i] = c
DigitVal(c) == (CHOOSE i \in 1..10 : Digits[i] = c) - 1

RECURSIVE SkipSpace(_)
SkipSpace(s) ==
    IF s # <<>> /\ Head(s) = " " THEN SkipSpace(Tail(s)) ELSE s

RECURSIVE DigitRun(_, _)
\* value of the longest digit prefix of s, continuing from acc
DigitRun(s, acc) ==
    IF s # <<>> /\ IsDigit(Head(s))
    THEN DigitRun(Tail(s), acc * 10 + DigitVal(Head(s)))
    ELSE acc

\* parseInt(x, 10) of a header value
parseInt(x) ==
    IF x = Undefined THEN NaN
    ELSE LET t == SkipSpace(x.str)
             neg == t # <<>> /\ Head(t) = "-"
             u == IF t # <<>> /\ Head(t) \in {"-", "+"} THEN Tail(t) ELSE t
         IN IF u = <<>> \/ ~IsDigit(Head(u)) THEN NaN
            ELSE Num(IF neg THEN 0 - DigitRun(u, 0) ELSE DigitRun(u, 0))

\* new Date(x): the date strings of the model are written as the decimal
\* digits of their instant in milliseconds; anything else is an Invalid Date
NewDate(x) ==
    IF x # Undefined /\ x.str # <<>>
         /\ \A i \in 1..Len(x.str) : IsDigit(x.str[i])
    THEN Num(DigitRun(x.str, 0))
    ELSE NaN

\* !x for a header value: undefined and the empty string are falsy
Falsy(x) == x = Undefined \/ x = Str(<<>>)

\* obj[key]
Get(obj, key) == IF key \in DOMAIN obj THEN obj[key] ELSE Undefined

NumMul(a, b) == IF a.nan \/ b.nan THEN NaN ELSE Num(a.v * b.v)
NumAdd(a, b) == IF a.nan \/ b.nan THEN NaN ELSE Num(a.v + b.v)

RECURSIVE Pow2(_)
Pow2(n) == IF n = 0 THEN 1 ELSE 2 * Pow2(n - 1)

----------------------------------------------------------------------------
(* Responses and errors *)

\* an AxiosError with a response
HttpError(id, status, headers) ==
    [id |-> id, name |-> "AxiosError", isError |-> TRUE, hasResponse |-> TRUE,
     response |-> [status |-> status, headers |-> headers],
     isRateLimitError |-> FALSE, rateLimitHeaders |-> Null]

\* an AxiosError without a response (the request never got an answer)
NetworkError(id) ==
    [id |-> id, name |-> "AxiosError", isError |-> TRUE, hasResponse |-> FALSE,
     response |-> Undefined,
     isRateLimitError |-> FALSE, rateLimitHeaders |-> Null]

\* the TypeError of reading a property of undefined or null
TypeError ==
    [id |-> 0, name |-> "TypeError", isError |-> TRUE, hasResponse |-> FALSE,
     response |-> Undefined,
     isRateLimitError |-> FALSE, rateLimitHeaders |-> Null]

----------------------------------------------------------------------------
(* RateLimitHandler *)

\* variant: a missing x-ratelimit-remaining is read as 0
parseRateLimitHeaders_Defaulting(response) ==
    LET headers == response.headers
        limit == Get(headers, "x-ratelimit-limit")
        remaining == Get(headers, "x-ratelimit-remaining")
        reset == Get(headers, "x-ratelimit-reset")
        retryAfter == Get(headers, "x-ratelimit-retry-after")
    IN IF Falsy(limit) \/ Falsy(reset) \/ Falsy(retryAfter)
       THEN Null
       ELSE [limit |-> parseInt(limit),
             remaining |-> IF Falsy(remaining) THEN Num(0)
                           ELSE parseInt(remaining),
             reset |-> NewDate(reset),
             retryAfter |-> parseInt(retryAfter)]

\* parseRateLimitHeaders(response)
parseRateLimitHeaders(response) ==
    LET headers == response.headers
        limit == Get(headers, "x-ratelimit-limit")
        remaining == Get(headers, "x-ratelimit-remaining")
        reset == Get(headers, "x-ratelimit-reset")
        retryAfter == Get(headers, "x-ratelimit-retry-after")
    IN IF Falsy(limit) \/ Falsy(remaining) \/ Falsy(reset) \/ Falsy(retryAfter)
       THEN Null
       ELSE [limit |-> parseInt(limit),
             remaining |-> parseInt(remaining),
             reset |-> NewDate(reset),
             retryAfter |-> parseInt(retryAfter)]

\* variant: every error status at or above 429 counts
isRateLimitError_AtLeast429(e) == e.hasResponse /\ e.response.status >= 429

\* isRateLimitError(error): error.response?.status === 429
isRateLimitError(e) == e.hasResponse /\ e.response.status = 429

\* the headers of error.response, or null when there is no response
ErrorHeaders(e) ==
    IF e.hasResponse THEN parseRateLimitHeaders(e.response) ELSE Null

\* variant: the fallback resets at once
FallbackHeaders_NoWindow(t) ==
    [limit |-> Num(60), remaining |-> Num(0),
     reset |-> Num(t), retryAfter |-> Num(60)]

\* the conservative state used when no headers could be parsed
FallbackHeaders(t) ==
    [limit |-> Num(60), remaining |-> Num(0),
     reset |-> Num(t + 60000), retryAfter |-> Num(60)]

\* variant: the parsed state is patched with the fallback's retryAfter
createRateLimitError_Merging(e, t) ==
    LET rateLimitHeaders == ErrorHeaders(e)
    IN [id |-> e.id, name |-> "RateLimitError", isError |-> TRUE,
        hasResponse |-> FALSE, response |-> Undefined,
        isRateLimitError |-> TRUE,
        rateLimitHeaders |-> IF rateLimitHeaders # Null
                             THEN [rateLimitHeaders EXCEPT
                                     !.retryAfter = FallbackHeaders(t).retryAfter]
                             ELSE FallbackHeaders(t)]

\* createRateLimitError(error) at time t
createRateLimitError(e, t) ==
    LET rateLimitHeaders == ErrorHeaders(e)
    IN [id |-> e.id, name |-> "RateLimitError", isError |-> TRUE,
        hasResponse |-> FALSE, response |-> Undefined,
        isRateLimitError |-> TRUE,
        rateLimitHeaders |-> IF rateLimitHeaders # Null
                             THEN rateLimitHeaders
                             ELSE FallbackHeaders(t)]

\* private sleep(ms): setTimeout fires after 1 ms when ms is NaN or below 1
TimerMs(ms) == IF ms.nan \/ ms.v < 1 THEN 1 ELSE ms.v

\* variant: off by one, attempt > this.rateLimitRetryAttempts
BudgetExhausted_OffByOne(a, opts) == a > opts.rateLimitRetryAttempts

\* the entry guard's budget test: attempt >= this.rateLimitRetryAttempts
BudgetExhausted(a, opts) == a >= opts.rateLimitRetryAttempts

\* the entry guard of handleRateLimit: throw instead of retrying
GivesUp(e, a, opts) == ~isRateLimitError(e) \/ BudgetExhausted(a, opts)

\* variant: onRateLimitHit fires on every attempt
HitCalls_EveryAttempt(h, a, opts) ==
    IF h # Null /\ opts.onRateLimitHit THEN <<h>> ELSE <<>>

\* onRateLimitHit invocations of one pass: headers parsed, first attempt
HitCalls(h, a, opts) ==
    IF h # Null /\ opts.onRateLimitHit /\ a = 0 THEN <<h>> ELSE <<>>

\* onRateLimitRetry invocations of one pass: headers parsed
RetryCalls(h, a, opts) ==
    IF h # Null /\ opts.onRateLimitRetry THEN <<<<a + 1, h>>>> ELSE <<>>

\* variant: the base delay is not added
HeaderDelay_NoBase(h, opts) == NumMul(h.retryAfter, Num(1000))

\* delayMs when the headers were parsed
HeaderDelay(h, opts) ==
    NumAdd(NumMul(h.retryAfter, Num(1000)), Num(opts.rateLimitRetryDelay))

\* variant: linear instead of exponential
FallbackDelay_Linear(a, opts) == Num((a + 1) * opts.rateLimitRetryDelay)

\* fallbackDelay when they were not
FallbackDelay(a, opts) == Num(Pow2(a) * opts.rateLimitRetryDelay)

\* the argument of the sleep of one pass
DelayMs(h, a, opts) ==
    IF h # Null THEN HeaderDelay(h, opts) ELSE FallbackDelay(a, opts)

\* the catch around retryFn: recurse on an Error that has a response,
\* rethrow anything else
RecursesOn(retryError) == retryError.isError /\ retryError.hasResponse

\* variant: the value of retryFn is dropped
Returned_Dropped(value) == Undefined

\* return await retryFn()
Returned(value) == value

----------------------------------------------------------------------------
(* Inputs *)

BaseDelays == {0, 1000}

OptionSet ==
    [rateLimitRetryAttempts : 0..MaxAttempts,
     rateLimitRetryDelay : BaseDelays,
     onRateLimitHit : BOOLEAN,
     onRateLimitRetry : BOOLEAN]

HFullA ==
    [k \in {"x-ratelimit-limit", "x-ratelimit-remaining",
            "x-ratelimit-reset", "x-ratelimit-retry-after"} |->
        CASE k = "x-ratelimit-limit" -> Str(<<"6", "0">>)
          [] k = "x-ratelimit-remaining" -> Str(<<"0">>)
          [] k = "x-ratelimit-reset" -> Str(<<"3", "0", "0", "0", "0">>)
          [] OTHER -> Str(<<"2">>)]

HFullB ==
    [k \in {"x-ratelimit-limit", "x-ratelimit-remaining",
            "x-ratelimit-reset", "x-ratelimit-retry-after"} |->
        CASE k = "x-ratelimit-limit" -> Str(<<"1", "0", "0">>)
          [] k = "x-ratelimit-remaining" -> Str(<<"0">>)
          [] k = "x-ratelimit-reset" -> Str(<<"4", "5", "0", "0", "0">>)
          [] OTHER -> Str(<<"7">>)]

\* x-ratelimit-remaining is missing
HPartial ==
    [k \in {"x-ratelimit-limit", "x-ratelimit-reset",
            "x-ratelimit-retry-after"} |-> HFullA[k]]

HNone == [k \in {} |-> <<>>]

HeaderMaps == {HFullA, HFullB, HPartial, HNone}

\* what a failed request can have failed with
Failures(id) ==
    {HttpError(id, 429, h) : h \in HeaderMaps}
      \cup {HttpError(id, 500, HFullA), NetworkError(id)}

\* what a successful reissue can resolve to
Values == {Str(<<"o", "k">>), Str(<<"d", "o", "n", "e">>)}

Pending == [kind |-> "pending"]

----------------------------------------------------------------------------
(* handleRateLimit, driven directly *)

\* one invocation handleRateLimit(e, retryFn, a) at time t, up to its first
\* await: either it throws, or it fires the callbacks and starts a sleep
Pass(e, a, opts, t) ==
    IF GivesUp(e, a, opts)
    THEN [throws |-> TRUE, error |-> createRateLimitError(e, t),
          hits |-> <<>>, retries |-> <<>>, ms |-> Num(0)]
    ELSE LET h == ErrorHeaders(e)
         IN [throws |-> FALSE, error |-> e,
             hits |-> HitCalls(h, a, opts),
             retries |-> RetryCalls(h, a, opts),
             ms |-> DelayMs(h, a, opts)]

Invoke(e, a) ==
    LET p == Pass(e, a, options, now)
    IN /\ error' = e
       /\ attempt' = a
       /\ IF p.throws
          THEN /\ result' = [kind |-> "thrown", error |-> p.error]
               /\ pc' = "done"
               /\ trace' = trace \o <<"throw">>
               /\ UNCHANGED <<pendingMs, sleeps, hits, retries>>
          ELSE /\ hits' = hits \o p.hits
               /\ retries' = retries \o p.retries
               /\ pendingMs' = p.ms
               /\ sleeps' = Append(sleeps, p.ms)
               /\ pc' = "sleeping"
               /\ trace' = trace \o [i \in 1..Len(p.hits) |-> "hit"]
                                 \o [i \in 1..Len(p.retries) |-> "retry"]
                                 \o <<"sleep">>
               /\ UNCHANGED result

\* the caller hands the failure of the original request to the handler
HandleRateLimit ==
    /\ pc = "start"
    /\ Invoke(error, 0)
    /\ UNCHANGED <<options, failures, requests, now, cvars, pvars, dvars, bvars, uvars, svars>>

\* the sleep ends and retryFn issues the request again
SleepElapsed ==
    /\ pc = "sleeping"
    /\ now' = now + TimerMs(pendingMs)
    /\ requests' = requests + 1
    /\ pc' = "retrying"
    /\ trace' = trace \o <<"request">>
    /\ UNCHANGED <<options, error, attempt, pendingMs, failures, sleeps,
                   hits, retries, result, cvars, pvars, dvars, bvars, uvars, svars>>

\* retryFn resolves
RetrySucceeds ==
    /\ pc = "retrying"
    /\ \E v \in Values :
         result' = [kind |-> "returned", value |-> Returned(v), produced |-> v]
    /\ pc' = "done"
    /\ trace' = trace \o <<"return">>
    /\ UNCHANGED <<options, error, attempt, pendingMs, failures, requests,
                   sleeps, hits, retries, now, cvars, pvars, dvars, bvars, uvars, svars>>

\* retryFn rejects
RetryFails ==
    /\ pc = "retrying"
    /\ \E e \in Failures(requests) :
         /\ failures' = Append(failures, e)
         /\ IF RecursesOn(e)
            THEN Invoke(e, attempt + 1)
            ELSE /\ result' = [kind |-> "thrown", error |-> e]
                 /\ pc' = "done"
                 /\ trace' = trace \o <<"throw">>
                 /\ UNCHANGED <<error, attempt, pendingMs, sleeps, hits,
                                retries>>
    /\ UNCHANGED <<options, requests, now, cvars, pvars, dvars, bvars, uvars, svars>>

\* no handler is shared
SInitIdle ==
    /\ shopts = [rateLimitRetryAttempts |-> 0, rateLimitRetryDelay |-> 0,
                 onRateLimitHit |-> FALSE, onRateLimitRetry |-> FALSE]
    /\ chains = <<>>
    /\ sclock = 0

\* the pure functions are not being applied
UInitIdle ==
    /\ uin = [kind |-> "none"]
    /\ ut = 0
    /\ uout = [op |-> "none"]
    /\ upc = "done"

PInitIdle ==
    /\ pin = NetworkError(0)
    /\ pt = 0
    /\ pout = [op |-> "none"]
    /\ ppc = "done"

\* no wrapped call is in progress
DInitIdle ==
    /\ dmax = 0
    /\ dpc = "done"
    /\ dattempt = 0
    /\ dcalls = 0
    /\ dfails = <<>>
    /\ dwaits = <<>>
    /\ dtrace = <<>>
    /\ dresult = Pending
    /\ dnow = 0

\* no batch processor exists
BInitIdle ==
    /\ bitems = <<>>
    /\ bsize = 1
    /\ bcb = FALSE
    /\ bpc = "done"
    /\ bi = 0
    /\ bj = 0
    /\ bcompleted = 0
    /\ bresults = <<>>
    /\ berrors = <<>>
    /\ bouts = <<>>
    /\ blog = <<>>
    /\ bwait = 0
    /\ bret = Pending
    /\ bruns = 0
    /\ bnow = 0

CInitIdle ==
    /\ copts = [enableRateLimit |-> TRUE, useCaseConverter |-> TRUE,
                rateLimitRetryAttempts |-> 0, rateLimitRetryDelay |-> 0,
                onRateLimitHit |-> FALSE, onRateLimitRetry |-> FALSE]
    /\ cstack = <<>>
    /\ cpc = "idle"
    /\ csent = 0
    /\ cserver = <<>>
    /\ csleeps = <<>>
    /\ chits = <<>>
    /\ cretries = <<>>
    /\ csettle = Pending
    /\ cresult = Pending
    /\ cnow = 0

Init ==
    /\ options \in OptionSet
    /\ pc = "start"
    /\ error \in Failures(1)
    /\ attempt = 0
    /\ pendingMs = Num(0)
    /\ failures = <<error>>
    /\ requests = 1
    /\ sleeps = <<>>
    /\ hits = <<>>
    /\ retries = <<>>
    /\ trace = <<"request">>
    /\ result = Pending
    /\ now = 0
    /\ CInitIdle
    /\ PInitIdle
    /\ DInitIdle
    /\ BInitIdle
    /\ UInitIdle
    /\ SInitIdle

Next ==
    \/ HandleRateLimit
    \/ SleepElapsed
    \/ RetrySucceeds
    \/ RetryFails

Spec == Init /\ [][Next]_vars

----------------------------------------------------------------------------
(* Response bodies and the case converter *)

Obj(f) == [obj |-> f]
IsObj(v) == "obj" \in DOMAIN v

\* v[key] of a value that is not undefined or null
Prop(v, key) ==
    IF IsObj(v) /\ key \in DOMAIN v.obj THEN v.obj[key] ELSE Undefined

Lower == <<"a", "d", "f", "n", "t", "u">>
Upper == <<"A", "D", "F", "N", "T", "U">>
ToUpper(c) ==
    IF \E i \in 1..Len(Lower) : Lower[i] = c
    THEN Upper[CHOOSE i \in 1..Len(Lower) : Lower[i] = c]
    ELSE c

RECURSIVE CamelKey(_)
\* camelCase of one key: an underscore is dropped and the character after
\* it is upper-cased
CamelKey(k) ==
    IF k = <<>> THEN <<>>
    ELSE IF Head(k) = "_" /\ Len(k) >= 2
         THEN <<ToUpper(k[2])>> \o CamelKey(SubSeq(k, 3, Len(k)))
         ELSE <<Head(k)>> \o CamelKey(Tail(k))

RECURSIVE camelCase(_)
\* camelCase(v, { deep: true }); a value that is not an object is returned
\* as it is
camelCase(v) ==
    IF ~IsObj(v) THEN v
    ELSE Obj([k2 \in {CamelKey(k) : k \in DOMAIN v.obj} |->
                camelCase(v.obj[CHOOSE k \in DOMAIN v.obj : CamelKey(k) = k2])])

KData == <<"d", "a", "t", "a">>
KUserName == <<"u", "n", "_", "a">>
KFirstName == <<"f", "_", "n">>

\* { un_a: "ok" }
BodyFlat == Obj([k \in {KUserName} |-> Str(<<"o", "k">>)])
\* { data: { f_n: "ok" } }
BodyData == Obj([k \in {KData} |-> Obj([j \in {KFirstName} |-> Str(<<"o", "k">>)])])

Bodies == {BodyFlat, BodyData}

----------------------------------------------------------------------------
(* An API call through the client of MailerLiteClient *)

ClientOptionSet ==
    [enableRateLimit : BOOLEAN,
     useCaseConverter : BOOLEAN,
     rateLimitRetryAttempts : 0..MaxAttempts,
     rateLimitRetryDelay : {1000},
     onRateLimitHit : BOOLEAN,
     onRateLimitRetry : BOOLEAN]

\* the failures the transport can report; a 429 answer is only explored
\* while fewer than MaxDepth interceptor invocations are active
ClientFailures(id, depth) ==
    (IF depth < MaxDepth
     THEN {HttpError(id, 429, h) : h \in {HFullA, HNone}}
     ELSE {})
      \cup {HttpError(id, 500, HFullA), NetworkError(id)}

Resolved(v) == [kind |-> "resolved", value |-> v]
Rejected(e) == [kind |-> "rejected", error |-> e]

\* the fulfilment handler of the response interceptor
OnFulfilled(response, opts) ==
    IF ~opts.useCaseConverter THEN response.data
    ELSE camelCase(response.data)

\* the rejection handler of the response interceptor after handleRateLimit
\* has returned retryResponse
AfterRetry(retryResponse, opts) ==
    IF retryResponse = Undefined \/ retryResponse = Null
    THEN Rejected(TypeError)
    ELSE IF ~opts.useCaseConverter
         THEN Resolved(Prop(retryResponse, KData))
         ELSE Resolved(camelCase(Prop(retryResponse, KData)))

\* variant: the handler exists whatever enableRateLimit says
Intercepts_Always(e, opts) == isRateLimitError(e)

\* does the rejection handler of the response interceptor call the handler
Intercepts(e, opts) == opts.enableRateLimit /\ isRateLimitError(e)

Top == cstack[Len(cstack)]
Pop == SubSeq(cstack, 1, Len(cstack) - 1)

\* the effect of handleRateLimit(e, retryFn, a) in the frame `keep` leaves
\* below it: it throws and the interceptor rejects, or it starts a sleep
ClientPass(e, a, keep) ==
    LET p == Pass(e, a, copts, cnow)
    IN IF p.throws
       THEN /\ cstack' = keep
            /\ csettle' = Rejected(p.error)
            /\ cpc' = "settling"
            /\ UNCHANGED <<chits, cretries, csleeps>>
       ELSE /\ cstack' = Append(keep, [error |-> e, attempt |-> a, ms |-> p.ms])
            /\ chits' = chits \o p.hits
            /\ cretries' = cretries \o [i \in 1..Len(p.retries) |-> p.retries[i][1]]
            /\ csleeps' = Append(csleeps, p.ms)
            /\ cpc' = "sleeping"
            /\ UNCHANGED csettle

\* the application calls an API method: client.get / client.post ...
ApiCall ==
    /\ cpc = "idle"
    /\ csent' = 1
    /\ cpc' = "inflight"
    /\ UNCHANGED <<copts, cstack, cserver, csleeps, chits, cretries, csettle,
                   cresult, cnow, hvars, pvars, dvars, bvars, uvars, svars>>

\* the endpoint answers 2xx: the fulfilment handler runs
RequestSucceeds ==
    /\ cpc = "inflight"
    /\ \E b \in Bodies :
         /\ cserver' = Append(cserver, [status |-> 200, data |-> b])
         /\ csettle' = Resolved(OnFulfilled([data |-> b], copts))
    /\ cpc' = "settling"
    /\ UNCHANGED <<copts, cstack, csent, csleeps, chits, cretries, cresult,
                   cnow, hvars, pvars, dvars, bvars, uvars, svars>>

\* the request fails: the rejection handler runs up to its first await
RequestFails ==
    /\ cpc = "inflight"
    /\ \E e \in ClientFailures(csent, Len(cstack)) :
         /\ cserver' = Append(cserver, [status |-> IF e.hasResponse
                                                   THEN e.response.status
                                                   ELSE 0,
                                        data |-> Undefined])
         /\ IF Intercepts(e, copts)
            THEN ClientPass(e, 0, cstack)
            ELSE /\ csettle' = Rejected(e)
                 /\ cpc' = "settling"
                 /\ UNCHANGED <<cstack, chits, cretries, csleeps>>
    /\ UNCHANGED <<copts, csent, cresult, cnow, hvars, pvars, dvars, bvars, uvars, svars>>

\* the sleep of the innermost handleRateLimit ends; its retryFn calls
\* client.request(config)
ClientSleepElapsed ==
    /\ cpc = "sleeping"
    /\ cnow' = cnow + TimerMs(Top.ms)
    /\ csent' = csent + 1
    /\ cpc' = "inflight"
    /\ UNCHANGED <<copts, cstack, cserver, csleeps, chits, cretries, csettle,
                   cresult, hvars, pvars, dvars, bvars, uvars, svars>>

\* retryFn of the innermost handleRateLimit resolves: the handler returns
\* the value and the rejection handler transforms it
RetryFnResolves ==
    /\ cpc = "settling"
    /\ cstack # <<>>
    /\ csettle.kind = "resolved"
    /\ csettle' = AfterRetry(Returned(csettle.value), copts)
    /\ cstack' = Pop
    /\ UNCHANGED <<copts, cpc, csent, cserver, csleeps, chits, cretries,
                   cresult, cnow, hvars, pvars, dvars, bvars, uvars, svars>>

\* retryFn of the innermost handleRateLimit rejects
RetryFnRejects ==
    /\ cpc = "settling"
    /\ cstack # <<>>
    /\ csettle.kind = "rejected"
    /\ IF RecursesOn(csettle.error)
       THEN ClientPass(csettle.error, Top.attempt + 1, Pop)
       ELSE /\ cstack' = Pop
            /\ UNCHANGED <<csettle, cpc, chits, cretries, csleeps>>
    /\ UNCHANGED <<copts, csent, cserver, cresult, cnow, hvars, pvars, dvars, bvars, uvars, svars>>

\* the promise of the API call settles
ApiCallSettles ==
    /\ cpc = "settling"
    /\ cstack = <<>>
    /\ cresult' = csettle
    /\ cpc' = "done"
    /\ UNCHANGED <<copts, cstack, csent, cserver, csleeps, chits, cretries,
                   csettle, cnow, hvars, pvars, dvars, bvars, uvars, svars>>

HInitIdle ==
    /\ options = [rateLimitRetryAttempts |-> 0, rateLimitRetryDelay |-> 0,
                  onRateLimitHit |-> FALSE, onRateLimitRetry |-> FALSE]
    /\ pc = "done"
    /\ error = NetworkError(1)
    /\ attempt = 0
    /\ pendingMs = Num(0)
    /\ failures = <<>>
    /\ requests = 0
    /\ sleeps = <<>>
    /\ hits = <<>>
    /\ retries = <<>>
    /\ trace = <<>>
    /\ result = Pending
    /\ now = 0

ClientInit ==
    /\ copts \in ClientOptionSet
    /\ cstack = <<>>
    /\ cpc = "idle"
    /\ csent = 0
    /\ cserver = <<>>
    /\ csleeps = <<>>
    /\ chits = <<>>
    /\ cretries = <<>>
    /\ csettle = Pending
    /\ cresult = Pending
    /\ cnow = 0
    /\ HInitIdle
    /\ PInitIdle
    /\ DInitIdle
    /\ BInitIdle
    /\ UInitIdle
    /\ SInitIdle

ClientNext ==
    \/ ApiCall
    \/ RequestSucceeds
    \/ RequestFails
    \/ ClientSleepElapsed
    \/ RetryFnResolves
    \/ RetryFnRejects
    \/ ApiCallSettles

ClientSpec == ClientInit /\ [][ClientNext]_vars

----------------------------------------------------------------------------
(* Properties of handleRateLimit, checked under Spec *)

Last(seq) == seq[Len(seq)]

\* the state parsed from a failure, Null when it has none
StateOf(e) == ErrorHeaders(e)

\* every request so far failed with 429 and all four headers
AllQuotaWithHeaders ==
    /\ Len(failures) = requests
    /\ \A i \in 1..Len(failures) :
         isRateLimitError(failures[i]) /\ StateOf(failures[i]) # Null

\* C1: with rateLimitRetryAttempts = N, when the original request and every
\* reissue fail with 429 and all four headers, the call ends after exactly
\* N + 1 requests by throwing the typed rate-limit error; no call sequence
\* ever issues more than N + 1 requests.
C1_ExactlyNPlusOneRequests ==
    /\ requests <= options.rateLimitRetryAttempts + 1
    /\ (pc = "done" /\ AllQuotaWithHeaders) =>
         /\ requests = options.rateLimitRetryAttempts + 1
         /\ result.kind = "thrown"
         /\ result.error.isRateLimitError

C1_Witness ==
    /\ pc = "done"
    /\ AllQuotaWithHeaders
    /\ options.rateLimitRetryAttempts = 3
    /\ requests = 4
    /\ result.kind = "thrown"

\* C3: in every call sequence in which a 429 failure is retried,
\* onRateLimitHit has been invoked exactly once, whichever of the failing
\* responses carry the headers.
C3_HitExactlyOnce ==
    (options.onRateLimitHit /\ Len(sleeps) >= 1) => Len(hits) = 1

\* C4: onRateLimitRetry is invoked once before every reissue, numbered
\* 1, 2, ... and carrying the state of the failure that triggered the retry,
\* also when that failure has no headers.
C4_RetryCallbackEveryRetry ==
    options.onRateLimitRetry =>
        /\ Len(retries) = Len(sleeps)
        /\ \A k \in 1..Len(retries) :
             /\ retries[k][1] = k
             /\ StateOf(failures[k]) # Null => retries[k][2] = StateOf(failures[k])

\* C5: when the last failure is not a 429 failure, the call sequence ends
\* by throwing that same failure, which is not a typed rate-limit error.
C5_NonQuotaFailureSurfacesUnchanged ==
    (pc = "done" /\ result.kind = "thrown" /\ ~isRateLimitError(Last(failures)))
        => /\ result.error = Last(failures)
           /\ ~result.error.isRateLimitError

\* C6: when the budget is exhausted on a 429 failure, the thrown error has
\* isRateLimitError = true and its state is the state parsed from the final
\* failing response when that response has all four headers, and the
\* fallback otherwise; it is never put together from several responses.
C6_ExhaustedErrorCarriesOneState ==
    (pc = "done" /\ result.kind = "thrown" /\ isRateLimitError(Last(failures)))
        => /\ attempt >= options.rateLimitRetryAttempts
           /\ result.error.isRateLimitError
           /\ result.error.rateLimitHeaders =
                IF StateOf(Last(failures)) # Null
                THEN StateOf(Last(failures))
                ELSE FallbackHeaders(now)

C6_Witness ==
    /\ pc = "done"
    /\ result.kind = "thrown"
    /\ Len(failures) >= 2
    /\ failures[1].response.headers = HFullA
    /\ isRateLimitError(Last(failures))
    /\ Last(failures).response.headers = HFullB
    /\ result.error.rateLimitHeaders.retryAfter = Num(7)

\* C7: when a reissue succeeds the call returns exactly the value the
\* reissue produced and nothing follows: the return is the last step, every
\* earlier request failed and was preceded by one sleep, so one 429 followed
\* by a success costs one sleep and two requests.
C7_SuccessReturnsAndStops ==
    /\ \A i \in 1..Len(trace) : trace[i] = "return" => i = Len(trace)
    /\ result.kind = "returned" =>
         /\ pc = "done"
         /\ result.value = result.produced
         /\ Last(trace) = "return"
         /\ requests = Len(failures) + 1
         /\ Len(sleeps) = Len(failures)
         /\ Len(failures) = 1 => (requests = 2 /\ Len(sleeps) = 1)

C7_Witness ==
    /\ result.kind = "returned"
    /\ Len(failures) = 1
    /\ requests = 2
    /\ Len(sleeps) = 1
    /\ result.value \in Values

\* C9: the sleep started after a 429 failure with all four headers is
\* retryAfter * 1000 + rateLimitRetryDelay with that failure's retryAfter.
C9_HeaderDelay ==
    \A k \in 1..Len(sleeps) :
        StateOf(failures[k]) # Null =>
            sleeps[k] = Num(StateOf(failures[k]).retryAfter.v * 1000
                              + options.rateLimitRetryDelay)

C9_Witness ==
    /\ Len(sleeps) >= 2
    /\ options.rateLimitRetryDelay = 1000
    /\ failures[1].response.headers = HFullA
    /\ failures[2].response.headers = HFullB
    /\ sleeps[1] = Num(3000)
    /\ sleeps[2] = Num(8000)

\* C10: the sleep started after a 429 failure without headers is
\* 2^attempt * rateLimitRetryDelay, attempt being the number of retries
\* already made; from one header-less retry to the next the delay doubles
\* and so never decreases.
C10_FallbackDelay ==
    /\ \A k \in 1..Len(sleeps) :
         StateOf(failures[k]) = Null =>
             sleeps[k] = Num(Pow2(k - 1) * options.rateLimitRetryDelay)
    /\ \A k \in 1..(Len(sleeps) - 1) :
         (StateOf(failures[k]) = Null /\ StateOf(failures[k + 1]) = Null) =>
             /\ sleeps[k + 1].v = 2 * sleeps[k].v
             /\ sleeps[k + 1].v >= sleeps[k].v

C10_Witness ==
    /\ Len(sleeps) = 3
    /\ \A k \in 1..3 : StateOf(failures[k]) = Null
    /\ sleeps = <<Num(1000), Num(2000), Num(4000)>>

----------------------------------------------------------------------------
(* Properties of an API call through the client, checked under ClientSpec *)

EveryAnswerWas429 == \A i \in 1..Len(cserver) : cserver[i].status = 429

\* C2: with enableRateLimit = true and rateLimitRetryAttempts = N, a call
\* whose every request is answered 429 has been sent at most N + 1 times;
\* the reissue through client.request does not restart the budget.
C2_ClientSendsAtMostNPlusOne ==
    (copts.enableRateLimit /\ EveryAnswerWas429)
        => csent <= copts.rateLimitRetryAttempts + 1

\* C8: with enableRateLimit = true, a call whose first request is answered
\* 429 and whose reissue succeeds resolves to the value it would have
\* resolved to had the first request succeeded with the same body.
C8_RetryPathResolvesLikeDirectPath ==
    (/\ copts.enableRateLimit
     /\ cpc = "done"
     /\ Len(cserver) = 2
     /\ cserver[1].status = 429
     /\ cserver[2].status = 200)
        => cresult = Resolved(OnFulfilled([data |-> cserver[2].data], copts))

----------------------------------------------------------------------------
(* RateLimitUtils *)

\* Math.ceil(a / b) for b > 0
CeilDiv(a, b) == IF a % b = 0 THEN a \div b ELSE (a \div b) + 1

\* variant: an error counts as typed as soon as it carries a state
UtilsIsRateLimitError_ByState(e) ==
    /\ e # Null
    /\ e # Undefined
    /\ e.rateLimitHeaders # Null

\* RateLimitUtils.isRateLimitError(error)
UtilsIsRateLimitError(e) ==
    /\ e # Null
    /\ e # Undefined
    /\ e.isRateLimitError = TRUE

\* variant: the state is handed out without asking whether the error is typed
getRateLimitInfo_Unchecked(e) ==
    IF e = Null \/ e = Undefined THEN Null ELSE e.rateLimitHeaders

\* RateLimitUtils.getRateLimitInfo(error)
getRateLimitInfo(e) ==
    IF ~UtilsIsRateLimitError(e) THEN Null ELSE e.rateLimitHeaders

\* variant: the time to reset is divided rounding down
getWaitTime_Floor(headers, t) ==
    IF ~headers.reset.nan /\ headers.reset.v <= t THEN Num(0)
    ELSE IF ~headers.remaining.nan /\ headers.remaining.v > 0
         THEN IF headers.reset.nan THEN NaN
              ELSE Num((headers.reset.v - t) \div headers.remaining.v)
         ELSE IF headers.reset.nan THEN NaN
              ELSE Num(headers.reset.v - t)

\* RateLimitUtils.getWaitTime(headers) at time t; a comparison with NaN is
\* false and arithmetic on NaN is NaN
getWaitTime(headers, t) ==
    IF ~headers.reset.nan /\ headers.reset.v <= t THEN Num(0)
    ELSE IF ~headers.remaining.nan /\ headers.remaining.v > 0
         THEN IF headers.reset.nan THEN NaN
              ELSE Num(CeilDiv(headers.reset.v - t, headers.remaining.v))
         ELSE IF headers.reset.nan THEN NaN
              ELSE Num(headers.reset.v - t)

\* variant: the sleep is capped at one second
waitForRateLimit_Capped(headers, t) ==
    LET waitTime == getWaitTime(headers, t)
    IN IF ~waitTime.nan /\ waitTime.v > 0
       THEN (IF waitTime.v > 1000 THEN 1000 ELSE waitTime.v)
       ELSE 0

\* RateLimitUtils.waitForRateLimit(headers) at time t: the time it sleeps,
\* 0 when it does not sleep
waitForRateLimit(headers, t) ==
    LET waitTime == getWaitTime(headers, t)
    IN IF ~waitTime.nan /\ waitTime.v > 0 THEN waitTime.v ELSE 0

----------------------------------------------------------------------------
(* The pure functions of RateLimitHandler on bounded inputs *)

RequiredKeys ==
    {"x-ratelimit-limit", "x-ratelimit-remaining",
     "x-ratelimit-reset", "x-ratelimit-retry-after"}

LimitTexts ==
    {Undefined, Str(<<>>), Str(<<"0">>), Str(<<"6", "0">>),
     Str(<<"a", "b", "c">>)}
RemainingTexts ==
    {Undefined, Str(<<>>), Str(<<"0">>), Str(<<"5">>), Str(<<"7", "0">>),
     Str(<<"-", "1">>)}
ResetTexts ==
    {Undefined, Str(<<"3", "0", "0", "0", "0">>), Str(<<"s", "o", "o", "n">>)}
RetryAfterTexts ==
    {Undefined, Str(<<"0">>), Str(<<"2">>), Str(<<"-", "3">>),
     Str(<<"1", ".", "5">>)}

\* the header map holding the given texts; an undefined text is a header
\* that is not in the map
MakeHeaders(limit, remaining, reset, retryAfter) ==
    LET all == [k \in RequiredKeys |->
                  CASE k = "x-ratelimit-limit" -> limit
                    [] k = "x-ratelimit-remaining" -> remaining
                    [] k = "x-ratelimit-reset" -> reset
                    [] OTHER -> retryAfter]
    IN [k \in {x \in RequiredKeys : all[x] # Undefined} |-> all[k]]

\* the name of a header as the API documentation writes it
DocumentedCase(k) ==
    CASE k = "x-ratelimit-limit" -> "X-RateLimit-Limit"
      [] k = "x-ratelimit-remaining" -> "X-RateLimit-Remaining"
      [] k = "x-ratelimit-reset" -> "X-RateLimit-Reset"
      [] k = "x-ratelimit-retry-after" -> "X-RateLimit-Retry-After"
      [] OTHER -> k

\* String.prototype.toLowerCase on a header name
LowerCaseKey(k) ==
    IF \E x \in RequiredKeys : DocumentedCase(x) = k
    THEN CHOOSE x \in RequiredKeys : DocumentedCase(x) = k
    ELSE k

\* the same headers under their documented names: what a transport that
\* keeps the names as sent (a mock or custom adapter) puts in
\* response.headers
Recased(h) ==
    [k \in {DocumentedCase(x) : x \in DOMAIN h} |-> h[LowerCaseKey(k)]]

LowerCaseMaps ==
    {MakeHeaders(l, r, s, a) :
        l \in LimitTexts, r \in RemainingTexts,
        s \in ResetTexts, a \in RetryAfterTexts}

ParseHeaderMaps == LowerCaseMaps \cup {Recased(h) : h \in LowerCaseMaps}

Statuses == {400, 428, 429, 430, 500}

ParseErrors ==
    {HttpError(1, st, h) : st \in Statuses, h \in ParseHeaderMaps}
      \cup {NetworkError(1)}

\* how long after its creation a caller may wait on a typed error
WaitOffsets == {0, 1000, 59999}

\* isRateLimitError(error)
ApplyIsRateLimitError ==
    /\ ppc = "input"
    /\ pout' = [op |-> "isRateLimitError", value |-> isRateLimitError(pin)]
    /\ ppc' = "done"
    /\ UNCHANGED <<pin, pt, hvars, cvars, dvars, bvars, uvars, svars>>

\* parseRateLimitHeaders(error.response)
ApplyParseRateLimitHeaders ==
    /\ ppc = "input"
    /\ pin.hasResponse
    /\ pout' = [op |-> "parseRateLimitHeaders",
                state |-> parseRateLimitHeaders(pin.response)]
    /\ ppc' = "done"
    /\ UNCHANGED <<pin, pt, hvars, cvars, dvars, bvars, uvars, svars>>

\* createRateLimitError(error)
ApplyCreateRateLimitError ==
    /\ ppc = "input"
    /\ pout' = [op |-> "createRateLimitError",
                error |-> createRateLimitError(pin, pt)]
    /\ ppc' = "created"
    /\ UNCHANGED <<pin, pt, hvars, cvars, dvars, bvars, uvars, svars>>

\* the caller waits on the state of the typed error it caught
CallerWaits ==
    /\ ppc = "created"
    /\ \E d \in WaitOffsets :
         /\ pt' = pt + d
         /\ pout' = [op |-> "waited", error |-> pout.error, createdAt |-> pt,
                     ms |-> waitForRateLimit(getRateLimitInfo(pout.error),
                                             pt + d)]
    /\ ppc' = "done"
    /\ UNCHANGED <<pin, hvars, cvars, dvars, bvars, uvars, svars>>

ParseInit ==
    /\ pin \in ParseErrors
    /\ pt \in {0, 5000}
    /\ pout = [op |-> "none"]
    /\ ppc = "input"
    /\ HInitIdle
    /\ CInitIdle
    /\ DInitIdle
    /\ BInitIdle
    /\ UInitIdle
    /\ SInitIdle

ParseNext ==
    \/ ApplyIsRateLimitError
    \/ ApplyParseRateLimitHeaders
    \/ ApplyCreateRateLimitError
    \/ CallerWaits

ParseSpec == ParseInit /\ [][ParseNext]_vars

----------------------------------------------------------------------------
(* Properties of the pure functions, checked under ParseSpec *)

\* some required header is not in the header map of the error
SomeHeaderMissing(e) ==
    ~e.hasResponse \/ \E k \in RequiredKeys : k \notin DOMAIN e.response.headers

\* C11: isRateLimitError(error) is true exactly when the error has a
\* response whose status is 429.
C11_QuotaExceededIff429 ==
    pout.op = "isRateLimitError" =>
        (pout.value <=> (pin.hasResponse /\ pin.response.status = 429))

C11_Witness ==
    /\ pout.op = "isRateLimitError"
    /\ pin.hasResponse
    /\ pin.response.status = 430
    /\ pout.value = FALSE

\* C12: a typed error built by createRateLimitError always carries a state;
\* when the error has no response or a header is missing the state is the
\* fallback {limit 60, remaining 0, reset = creation time + 60 s,
\* retryAfter 60}, and waiting on it within those 60 s lasts a positive time.
C12_TypedErrorCarriesState ==
    /\ pout.op = "createRateLimitError" =>
         /\ pout.error.isRateLimitError
         /\ pout.error.rateLimitHeaders # Null
         /\ SomeHeaderMissing(pin) =>
              pout.error.rateLimitHeaders =
                  [limit |-> Num(60), remaining |-> Num(0),
                   reset |-> Num(pt + 60000), retryAfter |-> Num(60)]
    /\ (pout.op = "waited" /\ SomeHeaderMissing(pin)) => pout.ms > 0

C12_Witness ==
    /\ pout.op = "waited"
    /\ pin.hasResponse
    /\ "x-ratelimit-remaining" \notin DOMAIN pin.response.headers
    /\ "x-ratelimit-limit" \in DOMAIN pin.response.headers
    /\ pout.error.rateLimitHeaders.remaining = Num(0)
    /\ pout.ms = 1

\* C13: parseRateLimitHeaders returns null whenever one of the four headers
\* is missing; no missing field is ever defaulted.
C13_MissingHeaderGivesNoState ==
    (pout.op = "parseRateLimitHeaders" /\ SomeHeaderMissing(pin))
        => pout.state = Null

C13_Witness ==
    /\ pout.op = "parseRateLimitHeaders"
    /\ DOMAIN pin.response.headers =
         RequiredKeys \ {"x-ratelimit-remaining"}
    /\ pout.state = Null

\* C14: every state parseRateLimitHeaders returns has an integer limit > 0,
\* an integer remaining with 0 <= remaining <= limit and an integer
\* retryAfter >= 0.
C14_ParsedStateSatisfiesDataModel ==
    (pout.op = "parseRateLimitHeaders" /\ pout.state # Null) =>
        /\ ~pout.state.limit.nan
        /\ pout.state.limit.v > 0
        /\ ~pout.state.remaining.nan
        /\ pout.state.remaining.v >= 0
        /\ pout.state.remaining.v <= pout.state.limit.v
        /\ ~pout.state.retryAfter.nan
        /\ pout.state.retryAfter.v >= 0

----------------------------------------------------------------------------
(* withRateLimit *)

MaxRetries == 3       \* largest maxRetries explored

\* a typed rate-limit error as createRateLimitError builds it, carrying state
QuotaError(id, state) ==
    [id |-> id, name |-> "RateLimitError", isError |-> TRUE,
     hasResponse |-> FALSE, response |-> Undefined,
     isRateLimitError |-> TRUE, rateLimitHeaders |-> state]

\* an error that carries a state but is not flagged isRateLimitError
UntypedErrorWithState(id, state) ==
    [id |-> id, name |-> "Error", isError |-> TRUE,
     hasResponse |-> FALSE, response |-> Undefined,
     isRateLimitError |-> FALSE, rateLimitHeaders |-> state]

StateResetLater ==
    [limit |-> Num(60), remaining |-> Num(0),
     reset |-> Num(30000), retryAfter |-> Num(2)]
StateSomeLeft ==
    [limit |-> Num(60), remaining |-> Num(7),
     reset |-> Num(30000), retryAfter |-> Num(2)]
StateResetPassed ==
    [limit |-> Num(60), remaining |-> Num(0),
     reset |-> Num(0), retryAfter |-> Num(0)]

QuotaStates == {StateResetLater, StateSomeLeft, StateResetPassed}

\* what a client built with enableRateLimit = false rejects with: its
\* rejection handler passes the transport error on
DisabledClientFailures(id) ==
    {e \in {HttpError(id, 429, HFullA), HttpError(id, 500, HFullA)} :
        ~Intercepts(e, [enableRateLimit |-> FALSE])}

\* what fn can throw
FnFailures(id) ==
    {QuotaError(id, st) : st \in QuotaStates}
      \cup {QuotaError(id, Null), UntypedErrorWithState(id, StateResetLater),
            NetworkError(id)}
      \cup DisabledClientFailures(id)

\* the loop condition: attempt <= maxRetries
LoopContinues(a, maxRetries) == a <= maxRetries

\* variant: the last attempt waits too
DecoratorRetries_OffByOne(e, a, maxRetries) ==
    /\ UtilsIsRateLimitError(e)
    /\ getRateLimitInfo(e) # Null
    /\ a <= maxRetries

\* the catch block waits and continues instead of throwing
DecoratorRetries(e, a, maxRetries) ==
    /\ UtilsIsRateLimitError(e)
    /\ getRateLimitInfo(e) # Null
    /\ a < maxRetries

\* the loop test and the body up to `await fn(...args)`; `throw lastError`
\* after the loop
Iterate ==
    /\ dpc = "loop"
    /\ IF LoopContinues(dattempt, dmax)
       THEN /\ dcalls' = dcalls + 1
            /\ dpc' = "calling"
            /\ dtrace' = Append(dtrace, "call")
            /\ UNCHANGED dresult
       ELSE /\ dresult' = [kind |-> "thrown",
                           error |-> IF dfails = <<>> THEN Undefined
                                     ELSE dfails[Len(dfails)]]
            /\ dpc' = "done"
            /\ dtrace' = Append(dtrace, "throw")
            /\ UNCHANGED dcalls
    /\ UNCHANGED <<dmax, dattempt, dfails, dwaits, dnow, hvars, cvars, pvars,
                   bvars, uvars, svars>>

\* fn resolves: return await fn(...args)
FnResolves ==
    /\ dpc = "calling"
    /\ \E v \in Values :
         dresult' = [kind |-> "returned", value |-> v, produced |-> v]
    /\ dpc' = "done"
    /\ dtrace' = Append(dtrace, "return")
    /\ UNCHANGED <<dmax, dattempt, dcalls, dfails, dwaits, dnow, hvars, cvars,
                   pvars, bvars, uvars, svars>>

\* fn rejects: the catch block
FnRejects ==
    /\ dpc = "calling"
    /\ \E e \in FnFailures(dcalls) :
         /\ dfails' = Append(dfails, e)
         /\ IF DecoratorRetries(e, dattempt, dmax)
            THEN /\ dwaits' = Append(dwaits,
                                 [state |-> getRateLimitInfo(e),
                                  ms |-> waitForRateLimit(getRateLimitInfo(e),
                                                          dnow)])
                 /\ dpc' = "waiting"
                 /\ dtrace' = Append(dtrace, "wait")
                 /\ UNCHANGED dresult
            ELSE /\ dresult' = [kind |-> "thrown", error |-> e]
                 /\ dpc' = "done"
                 /\ dtrace' = Append(dtrace, "throw")
                 /\ UNCHANGED dwaits
    /\ UNCHANGED <<dmax, dattempt, dcalls, dnow, hvars, cvars, pvars, bvars, uvars, svars>>

\* waitForRateLimit settles: continue, attempt++
WaitSettles ==
    /\ dpc = "waiting"
    /\ dnow' = dnow + dwaits[Len(dwaits)].ms
    /\ dattempt' = dattempt + 1
    /\ dpc' = "loop"
    /\ UNCHANGED <<dmax, dcalls, dfails, dwaits, dtrace, dresult, hvars, cvars,
                   pvars, bvars, uvars, svars>>

DecoratorInit ==
    /\ dmax \in 0..MaxRetries
    /\ dpc = "loop"
    /\ dattempt = 0
    /\ dcalls = 0
    /\ dfails = <<>>
    /\ dwaits = <<>>
    /\ dtrace = <<>>
    /\ dresult = Pending
    /\ dnow \in {0, 9000}
    /\ HInitIdle
    /\ CInitIdle
    /\ PInitIdle
    /\ BInitIdle
    /\ UInitIdle
    /\ SInitIdle

DecoratorNext ==
    \/ Iterate
    \/ FnResolves
    \/ FnRejects
    \/ WaitSettles

DecoratorSpec == DecoratorInit /\ [][DecoratorNext]_vars

----------------------------------------------------------------------------
(* Properties of withRateLimit, checked under DecoratorSpec *)

\* every invocation of fn so far failed with a typed error carrying a state
EveryCallHitQuota ==
    /\ Len(dfails) = dcalls
    /\ \A i \in 1..Len(dfails) :
         dfails[i].isRateLimitError /\ dfails[i].rateLimitHeaders # Null

\* C15: when every invocation of fn fails with a typed quota-exceeded error
\* carrying a state, fn is invoked exactly maxRetries + 1 times, one
\* waitForRateLimit lies between two consecutive invocations and none
\* follows the last, and the error thrown is the last failure.
C15_DecoratorExhaustsBudget ==
    /\ dcalls <= dmax + 1
    /\ (dpc = "done" /\ EveryCallHitQuota) =>
         /\ dcalls = dmax + 1
         /\ Len(dwaits) = dmax
         /\ Len(dtrace) = 2 * dmax + 2
         /\ \A k \in 1..dmax :
              dtrace[2 * k - 1] = "call" /\ dtrace[2 * k] = "wait"
         /\ dtrace[2 * dmax + 1] = "call"
         /\ dtrace[2 * dmax + 2] = "throw"
         /\ dresult = [kind |-> "thrown", error |-> dfails[Len(dfails)]]

C15_Witness ==
    /\ dpc = "done"
    /\ EveryCallHitQuota
    /\ dmax = 3
    /\ dcalls = 4
    /\ Len(dwaits) = 3
    /\ dresult.kind = "thrown"
    /\ dresult.error.id = 4

\* C16: a failure of fn that is not a quota failure is thrown unchanged at
\* once, with no wait and no further invocation after it; a success returns
\* the value of fn and ends the call.
C16_NonQuotaFailureAndSuccessEndTheCall ==
    /\ \A i \in 1..Len(dfails) :
         ~dfails[i].isRateLimitError =>
             /\ i = Len(dfails)
             /\ dcalls = i
             /\ dpc = "done"
             /\ dresult = [kind |-> "thrown", error |-> dfails[i]]
             /\ dtrace[Len(dtrace)] = "throw"
             /\ dtrace[Len(dtrace) - 1] = "call"
             /\ Len(dwaits) = i - 1
    /\ dresult.kind = "returned" =>
         /\ dpc = "done"
         /\ dresult.value = dresult.produced
         /\ dtrace[Len(dtrace)] = "return"
         /\ dtrace[Len(dtrace) - 1] = "call"
         /\ dcalls = Len(dfails) + 1
    /\ \A i \in 1..Len(dtrace) :
         dtrace[i] \in {"throw", "return"} => i = Len(dtrace)

C16_Witness ==
    /\ dpc = "done"
    /\ Len(dfails) = 2
    /\ dfails[1].isRateLimitError
    /\ ~dfails[2].isRateLimitError
    /\ dfails[2].rateLimitHeaders # Null
    /\ dresult.kind = "thrown"
    /\ dcalls = 2

\* C17: a failure of a client with enableRateLimit = false that carries
\* HTTP status 429 is treated as quota-exceeded by the decorator: it is only
\* surfaced once the maxRetries retries are used up.
C17_DecoratorRetriesHttp429 ==
    (/\ dpc = "done"
     /\ dresult.kind = "thrown"
     /\ dfails # <<>>
     /\ isRateLimitError(dfails[Len(dfails)]))
        => dcalls = dmax + 1

----------------------------------------------------------------------------
(* RateLimitBatchProcessor.processAll *)

MaxItems == 3         \* longest item list explored
MaxBatchSize == 3     \* largest batchSize explored

\* the delay between two batches, in ms
ChunkDelayMs == 100

\* the items handed to the constructor: n distinct items
ItemLists == {[k \in 1..n |-> 10 * k] : n \in 0..MaxItems}

BatchSizes == 1..MaxBatchSize

NoItem == 0

\* what the processor resolves with for an item
Processed(item) == [processed |-> item]

\* what the processor may reject with: a transport error, a typed
\* rate-limit error with a state, a typed rate-limit error without one
ItemFailures(id) ==
    {NetworkError(id)}
        \cup {QuotaError(id, s) : s \in QuotaStates}
        \cup {QuotaError(id, Null)}

\* The index Array.prototype.slice uses for an argument k
RelativeIndex(len, k) ==
    IF k < 0 THEN (IF len + k < 0 THEN 0 ELSE len + k)
    ELSE (IF k > len THEN len ELSE k)

\* variant: the end index is taken as inclusive of nothing more than the
\* item before it
slice_OneShort(arr, start, end) ==
    LET from == RelativeIndex(Len(arr), start)
        to == RelativeIndex(Len(arr), end - 1)
    IN IF from < to THEN SubSeq(arr, from + 1, to) ELSE <<>>

\* Array.prototype.slice(start, end)
slice(arr, start, end) ==
    LET from == RelativeIndex(Len(arr), start)
        to == RelativeIndex(Len(arr), end)
    IN IF from < to THEN SubSeq(arr, from + 1, to) ELSE <<>>

\* const batch = this.items.slice(i, i + batchSize)
Batch == slice(bitems, bi, bi + bsize)

\* variant: the first item of the batch stands for all of them
CurrentItem_FirstOfBatch == Batch[1]

\* the item of `for (const item of batch)`
CurrentItem == Batch[bj]

\* const total = this.items.length
Total == Len(bitems)

\* one observable step of a run
Event(ev, item, completed, total, info, ms, t) ==
    [ev |-> ev, item |-> item, completed |-> completed, total |-> total,
     info |-> info, ms |-> ms, at |-> t]

\* variant: the callback is only called when there is a state to report
onProgress_OnlyWithState(cb, completed, total, info, t) ==
    IF cb /\ info # Undefined
    THEN <<Event("progress", NoItem, completed, total, info, 0, t)>>
    ELSE <<>>

\* if (onProgress) { onProgress(completed, total, rateLimitInfo) }
onProgress(cb, completed, total, info, t) ==
    IF cb THEN <<Event("progress", NoItem, completed, total, info, 0, t)>>
    ELSE <<>>

\* variant: the callback is told the count before it is incremented
ItemDone_ReportsFirst(cb, completed, total, t) ==
    [completed |-> completed + 1,
     calls |-> onProgress(cb, completed, total, Undefined, t)]

\* completed++; if (onProgress) { onProgress(completed, total) }
ItemDone(cb, completed, total, t) ==
    [completed |-> completed + 1,
     calls |-> onProgress(cb, completed + 1, total, Undefined, t)]

\* variant: the batch that ends the list is followed by a delay too
MoreBatches_Inclusive(i, batchSize, len) == i + batchSize <= len

\* if (i + batchSize < this.items.length): another batch follows
MoreBatches(i, batchSize, len) == i + batchSize < len

\* processAll(onProgress, batchSize) is called
ProcessAll ==
    /\ bpc = "idle"
    /\ bruns = 0
    /\ \E cb \in BOOLEAN, size \in BatchSizes :
         /\ bcb' = cb
         /\ bsize' = size
    /\ bruns' = bruns + 1
    /\ bcompleted' = 0
    /\ bi' = 0
    /\ bj' = 0
    /\ bpc' = "outer"
    /\ UNCHANGED <<bitems, bresults, berrors, bouts, blog, bwait, bret, bnow>>
    /\ UNCHANGED <<hvars, cvars, pvars, dvars, uvars, svars>>

\* the test of the outer loop: the next batch is sliced, or the run returns
NextChunk ==
    /\ bpc = "outer"
    /\ IF bi < Len(bitems)
       THEN /\ bj' = 0
            /\ bpc' = "inner"
            /\ UNCHANGED <<bret, blog>>
       ELSE /\ bret' = Resolved([results |-> bresults, errors |-> berrors])
            /\ blog' = Append(blog, Event("return", NoItem, bcompleted, Total,
                                          Undefined, 0, bnow))
            /\ bpc' = "done"
            /\ UNCHANGED bj
    /\ UNCHANGED <<bitems, bsize, bcb, bi, bcompleted, bresults, berrors,
                   bouts, bwait, bruns, bnow>>
    /\ UNCHANGED <<hvars, cvars, pvars, dvars, uvars, svars>>

\* the test of the inner loop: the processor is invoked on the next item of
\* the batch; after the last item the batch ends, with or without a delay
NextItem ==
    /\ bpc = "inner"
    /\ IF bj < Len(Batch)
       THEN /\ bj' = bj + 1
            /\ blog' = Append(blog, Event("call", Batch[bj + 1], bcompleted,
                                          Total, Undefined, 0, bnow))
            /\ bpc' = "awaiting"
            /\ UNCHANGED bi
       ELSE IF MoreBatches(bi, bsize, Len(bitems))
            THEN /\ bpc' = "delay"
                 /\ UNCHANGED <<bi, bj, blog>>
            ELSE /\ bi' = bi + bsize
                 /\ bpc' = "outer"
                 /\ UNCHANGED <<bj, blog>>
    /\ UNCHANGED <<bitems, bsize, bcb, bcompleted, bresults, berrors, bouts,
                   bwait, bret, bruns, bnow>>
    /\ UNCHANGED <<hvars, cvars, pvars, dvars, uvars, svars>>

\* a delay has been taken with a batchSize that does not advance i: from
\* here on every batch sliced is empty (slice(i, i + batchSize) has its end
\* at or before its start) and is followed by another delay, so the steps
\* repeat; the clock, the log and the ever smaller i are no longer recorded
Repeats ==
    /\ bsize <= 0
    /\ \E k \in 1..Len(blog) : blog[k].ev = "delay"

\* the timer of the delay between two batches fires
ChunkDelayElapsed ==
    /\ bpc = "delay"
    /\ IF Repeats
       THEN UNCHANGED <<bnow, blog, bi>>
       ELSE /\ bnow' = bnow + ChunkDelayMs
            /\ blog' = Append(blog, Event("delay", NoItem, bcompleted, Total,
                                          Undefined, ChunkDelayMs,
                                          bnow + ChunkDelayMs))
            /\ bi' = bi + bsize
    /\ bpc' = "outer"
    /\ UNCHANGED <<bitems, bsize, bcb, bj, bcompleted, bresults, berrors,
                   bouts, bwait, bret, bruns>>
    /\ UNCHANGED <<hvars, cvars, pvars, dvars, uvars, svars>>

\* the processor resolves: the try block, then the end of the loop body
ProcessorResolves ==
    /\ bpc = "awaiting"
    /\ LET item == CurrentItem
           value == Processed(item)
           done == ItemDone(bcb, bcompleted, Total, bnow)
       IN /\ bresults' = Append(bresults, value)
          /\ bouts' = Append(bouts, [item |-> item, ok |-> TRUE,
                                     settled |-> value])
          /\ blog' = blog \o <<Event("ok", item, bcompleted, Total,
                                     Undefined, 0, bnow)>> \o done.calls
          /\ bcompleted' = done.completed
    /\ bpc' = "inner"
    /\ UNCHANGED <<bitems, bsize, bcb, bi, bj, berrors, bwait, bret, bruns,
                   bnow>>
    /\ UNCHANGED <<hvars, cvars, pvars, dvars, uvars, svars>>

\* the processor rejects: the catch block up to the sleep of
\* waitForRateLimit, or to the end of the loop body when it does not sleep
ProcessorRejects ==
    /\ bpc = "awaiting"
    /\ \E e \in ItemFailures(Len(bouts) + 1) :
         LET item == CurrentItem
             info == getRateLimitInfo(e)
             handled == UtilsIsRateLimitError(e) /\ info # Null
             ms == IF handled THEN waitForRateLimit(info, bnow) ELSE 0
             told == IF handled
                     THEN onProgress(bcb, bcompleted, Total, info, bnow)
                     ELSE <<>>
             failed == Event("fail", item, bcompleted, Total,
                             IF handled THEN info ELSE Undefined, 0, bnow)
             done == ItemDone(bcb, bcompleted, Total, bnow)
         IN /\ berrors' = Append(berrors, [item |-> item, error |-> e])
            /\ bouts' = Append(bouts, [item |-> item, ok |-> FALSE,
                                       settled |-> e])
            /\ IF ms > 0
               THEN /\ blog' = blog \o <<failed>> \o told
                                 \o <<Event("sleep", item, bcompleted, Total,
                                            info, ms, bnow)>>
                    /\ bwait' = ms
                    /\ bpc' = "waiting"
                    /\ UNCHANGED bcompleted
               ELSE /\ blog' = blog \o <<failed>> \o told \o done.calls
                    /\ bcompleted' = done.completed
                    /\ bpc' = "inner"
                    /\ UNCHANGED bwait
    /\ UNCHANGED <<bitems, bsize, bcb, bi, bj, bresults, bret, bruns, bnow>>
    /\ UNCHANGED <<hvars, cvars, pvars, dvars, uvars, svars>>

\* the timer of waitForRateLimit fires: the end of the loop body
BatchWaitElapsed ==
    /\ bpc = "waiting"
    /\ bnow' = bnow + bwait
    /\ LET done == ItemDone(bcb, bcompleted, Total, bnow + bwait)
       IN /\ blog' = blog \o <<Event("wake", CurrentItem, bcompleted, Total,
                                     Undefined, bwait, bnow + bwait)>>
                          \o done.calls
          /\ bcompleted' = done.completed
    /\ bwait' = 0
    /\ bpc' = "inner"
    /\ UNCHANGED <<bitems, bsize, bcb, bi, bj, bresults, berrors, bouts, bret,
                   bruns>>
    /\ UNCHANGED <<hvars, cvars, pvars, dvars, uvars, svars>>

\* a processor right after construction
BatchInit ==
    /\ bitems \in ItemLists
    /\ bsize = 1
    /\ bcb = FALSE
    /\ bpc = "idle"
    /\ bi = 0
    /\ bj = 0
    /\ bcompleted = 0
    /\ bresults = <<>>
    /\ berrors = <<>>
    /\ bouts = <<>>
    /\ blog = <<>>
    /\ bwait = 0
    /\ bret = Pending
    /\ bruns = 0
    /\ bnow = 0
    /\ HInitIdle
    /\ CInitIdle
    /\ PInitIdle
    /\ DInitIdle
    /\ UInitIdle
    /\ SInitIdle

BatchNext ==
    \/ ProcessAll
    \/ NextChunk
    \/ NextItem
    \/ ChunkDelayElapsed
    \/ ProcessorResolves
    \/ ProcessorRejects
    \/ BatchWaitElapsed

BatchSpec == BatchInit /\ [][BatchNext]_vars

----------------------------------------------------------------------------
(* processAll called again on the same processor *)

\* the item lists of the processors that are run twice
RerunItemLists == {l \in ItemLists : Len(l) \in {1, 2}}

\* processAll(onProgress, batchSize) is called a second time, after the first
\* run has returned: total, completed and i are locals of the call,
\* this.results and this.errors are fields of the instance
ProcessAllAgain ==
    /\ bpc = "done"
    /\ bruns = 1
    /\ \E cb \in BOOLEAN, size \in BatchSizes :
         /\ bcb' = cb
         /\ bsize' = size
    /\ bruns' = bruns + 1
    /\ bcompleted' = 0
    /\ bi' = 0
    /\ bj' = 0
    /\ bret' = Pending
    /\ bpc' = "outer"
    /\ UNCHANGED <<bitems, bresults, berrors, bouts, blog, bwait, bnow>>
    /\ UNCHANGED <<hvars, cvars, pvars, dvars, uvars, svars>>

RerunInit ==
    /\ BatchInit
    /\ bitems \in RerunItemLists

RerunNext ==
    \/ BatchNext
    \/ ProcessAllAgain

RerunSpec == RerunInit /\ [][RerunNext]_vars

----------------------------------------------------------------------------
(* processAll with any integer batchSize *)

\* batchSize is a number the caller passes; it is not validated
AnyBatchSizes == (0 - MaxBatchSize)..MaxBatchSize

\* processAll(onProgress, batchSize) is called with any integer batchSize
ProcessAllAnySize ==
    /\ bpc = "idle"
    /\ bruns = 0
    /\ \E cb \in BOOLEAN, size \in AnyBatchSizes :
         /\ bcb' = cb
         /\ bsize' = size
    /\ bruns' = bruns + 1
    /\ bcompleted' = 0
    /\ bi' = 0
    /\ bj' = 0
    /\ bpc' = "outer"
    /\ UNCHANGED <<bitems, bresults, berrors, bouts, blog, bwait, bret, bnow>>
    /\ UNCHANGED <<hvars, cvars, pvars, dvars, uvars, svars>>

\* the steps of a run once it has been started
RunSteps ==
    \/ NextChunk
    \/ NextItem
    \/ ChunkDelayElapsed
    \/ ProcessorResolves
    \/ ProcessorRejects
    \/ BatchWaitElapsed

AnySizeNext ==
    \/ ProcessAllAnySize
    \/ RunSteps

\* every per-item operation settles and every timer fires: a run that can
\* take a step takes one
AnySizeSpec == BatchInit /\ [][AnySizeNext]_vars /\ WF_vars(RunSteps)

----------------------------------------------------------------------------
(* Properties of processAll *)

IsCall(x) == x.ev = "call"
IsSettle(x) == x.ev \in {"ok", "fail"}
IsProgress(x) == x.ev = "progress"

\* the processor invocations of the run, in order
Calls == SelectSeq(blog, IsCall)

\* the run in progress is the first one of its processor
FreshRun == bruns = 1 /\ bsize >= 1

\* C18: on a fresh processor the processor function is invoked once per
\* item, in input order, whatever the earlier items did; a failed item is
\* not invoked again; the returned results and errors together have one
\* entry per item, and no error entry when every item succeeded.
C18_EveryItemOnceInOrder ==
    FreshRun =>
        /\ Len(Calls) <= Len(bitems)
        /\ \A k \in 1..Len(Calls) : Calls[k].item = bitems[k]
        /\ Len(bouts) <= Len(Calls)
        /\ \A k \in 1..Len(bouts) : bouts[k].item = bitems[k]
        /\ bpc = "done" =>
             /\ Len(Calls) = Len(bitems)
             /\ Len(bouts) = Len(bitems)
             /\ bret.kind = "resolved"
             /\ Len(bret.value.results) + Len(bret.value.errors) = Len(bitems)
             /\ (\A k \in 1..Len(bouts) : bouts[k].ok) =>
                    /\ Len(bret.value.results) = Len(bitems)
                    /\ Len(bret.value.errors) = 0

C18_Witness ==
    /\ bpc = "done"
    /\ bruns = 1
    /\ bsize = 2
    /\ Len(bitems) = 3
    /\ ~bouts[1].ok
    /\ bouts[1].settled.isRateLimitError
    /\ bouts[2].ok
    /\ ~bouts[3].ok
    /\ ~bouts[3].settled.isRateLimitError
    /\ Len(Calls) = 3
    /\ Len(bret.value.results) = 1
    /\ Len(bret.value.errors) = 2

\* positions in the log of the onProgress(completed, total) invocations and
\* of the invocations with a third argument
PlainProgress ==
    {i \in 1..Len(blog) : IsProgress(blog[i]) /\ blog[i].info = Undefined}
StateProgress ==
    {i \in 1..Len(blog) : IsProgress(blog[i]) /\ blog[i].info # Undefined}

\* how many events before position i satisfy a test
SettledBefore(i) == Cardinality({j \in 1..(i - 1) : IsSettle(blog[j])})
CalledBefore(i) == Cardinality({j \in 1..(i - 1) : IsCall(blog[j])})

\* C19: with a progress callback, the k-th two-argument invocation is
\* (k, total), made after the k-th item has settled and before the next item
\* is invoked; every settled item gets one (the last one only once its wait
\* has elapsed); n invocations in all when every item succeeds.  An
\* invocation with a state directly follows a typed quota failure, carries
\* the state of that failure and the count of the items completed before it.
C19_ProgressAfterEveryItem ==
    (FreshRun /\ bcb) =>
        /\ \A i \in PlainProgress :
             LET k == Cardinality({j \in PlainProgress : j <= i})
             IN /\ blog[i].completed = k
                /\ blog[i].total = Len(bitems)
                /\ SettledBefore(i) = k
                /\ CalledBefore(i) = k
        /\ Cardinality(PlainProgress) = bcompleted
        /\ bcompleted = IF bpc = "waiting" THEN Len(bouts) - 1 ELSE Len(bouts)
        /\ (bpc = "done" /\ \A k \in 1..Len(bouts) : bouts[k].ok) =>
               /\ Cardinality(PlainProgress) = Len(bitems)
               /\ StateProgress = {}
        /\ \A i \in StateProgress :
             LET k == SettledBefore(i)
             IN /\ i > 1
                /\ blog[i - 1].ev = "fail"
                /\ ~bouts[k].ok
                /\ bouts[k].settled.isRateLimitError = TRUE
                /\ blog[i].info = bouts[k].settled.rateLimitHeaders
                /\ blog[i].total = Len(bitems)
                /\ blog[i].completed = k - 1
                /\ \A j \in PlainProgress :
                     j > i => blog[i].completed <= blog[j].completed

C19_Witness ==
    /\ bpc = "done"
    /\ bruns = 1
    /\ bcb
    /\ Len(bitems) = 3
    /\ Cardinality(PlainProgress) = 3
    /\ Cardinality(StateProgress) = 2
    /\ bouts[2].ok
    /\ \E i \in StateProgress : blog[i].completed = 2

\* the position in the log at which the k-th item operation settled
SettleIndex(k) ==
    CHOOSE i \in 1..Len(blog) : IsSettle(blog[i]) /\ SettledBefore(i) = k - 1

\* the k-th item operation failed with a typed error that carries a state
QuotaFailureWithState(k) ==
    /\ ~bouts[k].ok
    /\ UtilsIsRateLimitError(bouts[k].settled)
    /\ bouts[k].settled.rateLimitHeaders # Null

\* C20: when an item fails with a typed quota error carrying a state, the
\* pair (item, error) is in errors, a progress callback is called with that
\* state at once, and every later item operation starts no earlier than
\* getWaitTime(state) after the failure; the next one starts exactly then,
\* or one inter-batch delay later.
C20_QuotaFailureRecordedReportedAndWaited ==
    FreshRun =>
        \A k \in 1..Len(bouts) :
            QuotaFailureWithState(k) =>
                LET i == SettleIndex(k)
                    e == bouts[k].settled
                    w == getWaitTime(e.rateLimitHeaders, blog[i].at)
                    later == {j \in (i + 1)..Len(blog) : IsCall(blog[j])}
                IN /\ blog[i].ev = "fail"
                   /\ \E m \in 1..Len(berrors) :
                        berrors[m] = [item |-> bitems[k], error |-> e]
                   /\ bcb =>
                        /\ IsProgress(blog[i + 1])
                        /\ blog[i + 1].info = e.rateLimitHeaders
                        /\ blog[i + 1].at = blog[i].at
                   /\ ~w.nan
                   /\ \A j \in later :
                        /\ blog[j].at >= blog[i].at + w.v
                        /\ (\A j2 \in later : j <= j2) =>
                               blog[j].at \in {blog[i].at + w.v,
                                               blog[i].at + w.v + ChunkDelayMs}

C20_Witness ==
    /\ bpc = "done"
    /\ bruns = 1
    /\ bcb
    /\ Len(bitems) = 3
    /\ QuotaFailureWithState(1)
    /\ bouts[1].settled.rateLimitHeaders = StateSomeLeft
    /\ QuotaFailureWithState(2)
    /\ bouts[2].settled.rateLimitHeaders = StateResetLater
    /\ bnow >= 30000

IsDelay(x) == x.ev = "delay"

\* the inter-batch delays of the run
Delays == SelectSeq(blog, IsDelay)

\* C21: a run over n items with batchSize b >= 1 ends with ceil(n / b) - 1
\* delays of 100 ms (none for n = 0); a delay is taken only when a whole
\* number of batches, but not the whole list, has been completed; time passes
\* only in these delays and in the waits after a quota failure.
C21_DelayBetweenBatchesOnly ==
    FreshRun =>
        /\ \A i \in 1..Len(blog) :
             IsDelay(blog[i]) =>
                 /\ blog[i].ms = 100
                 /\ SettledBefore(i) = CalledBefore(i)
                 /\ SettledBefore(i) % bsize = 0
                 /\ SettledBefore(i) > 0
                 /\ SettledBefore(i) < Len(bitems)
                 /\ i > 1
                 /\ blog[i].at = blog[i - 1].at + 100
                 /\ i < Len(blog) => ~IsDelay(blog[i + 1])
        /\ \A i \in 2..Len(blog) :
             /\ blog[i].at # blog[i - 1].at => blog[i].ev \in {"wake", "delay"}
             /\ blog[i].ev = "wake" =>
                    /\ blog[i - 1].ev = "sleep"
                    /\ QuotaFailureWithState(SettledBefore(i))
        /\ \A i \in 1..Len(blog) : i = 1 => blog[i].at = 0
        /\ bpc = "done" =>
             Len(Delays) = IF Len(bitems) = 0 THEN 0
                           ELSE CeilDiv(Len(bitems), bsize) - 1

C21_Witness ==
    /\ bpc = "done"
    /\ bruns = 1
    /\ Len(bitems) = 3
    /\ bsize = 2
    /\ Len(Delays) = 1
    /\ QuotaFailureWithState(1)
    /\ bnow = 30100

----------------------------------------------------------------------------
(* Properties of the client, continued *)

\* the API call has settled after its first request failed with this status
FirstAnswerWas(statuses) ==
    /\ cpc = "done"
    /\ cserver # <<>>
    /\ cserver[1].status \in statuses

\* the API call was rejected with the untouched failure of its only request
RejectedWithOriginal ==
    /\ csent = 1
    /\ Len(cserver) = 1
    /\ cresult.kind = "rejected"
    /\ cresult.error \in ClientFailures(1, 0)
    /\ cresult.error.isRateLimitError = FALSE
    /\ (IF cresult.error.hasResponse THEN cresult.error.response.status ELSE 0)
           = cserver[1].status
    /\ csleeps = <<>>
    /\ chits = <<>>
    /\ cretries = <<>>

----------------------------------------------------------------------------
(* RateLimitUtils: the remaining pure functions *)

\* a <= b and a < b on numbers: false when either is NaN
NumLe(a, b) == ~a.nan /\ ~b.nan /\ a.v <= b.v
NumLt(a, b) == ~a.nan /\ ~b.nan /\ a.v < b.v

\* Math.max and Math.min: NaN when either argument is NaN
MathMax(a, b) == IF a.nan \/ b.nan THEN NaN ELSE IF a.v >= b.v THEN a ELSE b
MathMin(a, b) == IF a.nan \/ b.nan THEN NaN ELSE IF a.v <= b.v THEN a ELSE b

\* a parameter with a default value
Default(arg, d) == IF arg = Undefined THEN Num(d) ELSE arg

\* variant: the threshold itself does not pause yet
shouldPause_Strict(headers, threshold) ==
    NumLt(headers.remaining, Default(threshold, 10))

\* RateLimitUtils.shouldPause(headers, threshold = 10)
shouldPause(headers, threshold) ==
    NumLe(headers.remaining, Default(threshold, 10))

\* RateLimitUtils.willExceedRateLimit(headers, additionalRequests)
willExceedRateLimit(headers, additionalRequests) ==
    NumLt(headers.remaining, additionalRequests)

\* RateLimitUtils.calculateBatchDelay(headers, remainingOperations) at time t
calculateBatchDelay(headers, remainingOperations, t) ==
    IF NumLe(headers.remaining, Num(0))
    THEN MathMax(Num(0), NumAdd(headers.reset, Num(0 - t)))
    ELSE IF NumLe(remainingOperations, headers.remaining)
         THEN Num(0)
         ELSE LET timeUntilReset == NumAdd(headers.reset, Num(0 - t))
              IN IF NumLe(timeUntilReset, Num(0)) THEN Num(0)
                 ELSE IF timeUntilReset.nan \/ headers.remaining.nan THEN NaN
                      ELSE Num(CeilDiv(timeUntilReset.v, headers.remaining.v))

\* variant: the buffer is the smaller of 5 and a tenth of the limit
Buffer_Smaller(limit) ==
    MathMin(Num(5), IF limit.nan THEN NaN ELSE Num(limit.v \div 10))

\* Math.max(5, Math.floor(headers.limit * 0.1)); for an integer limit the
\* binary64 product limit * 0.1 has the floor of limit / 10
Buffer(limit) ==
    MathMax(Num(5), IF limit.nan THEN NaN ELSE Num(limit.v \div 10))

\* variant: the usable count is not clamped at 0
getOptimalBatchSize_Unclamped(headers, maxBatchSize) ==
    LET buffer == Buffer(headers.limit)
        safeRemaining ==
            NumAdd(headers.remaining,
                   IF buffer.nan THEN NaN ELSE Num(0 - buffer.v))
    IN MathMin(Default(maxBatchSize, 50), safeRemaining)

\* RateLimitUtils.getOptimalBatchSize(headers, maxBatchSize = 50)
getOptimalBatchSize(headers, maxBatchSize) ==
    LET buffer == Buffer(headers.limit)
        safeRemaining ==
            MathMax(Num(0),
                    NumAdd(headers.remaining,
                           IF buffer.nan THEN NaN ELSE Num(0 - buffer.v)))
    IN MathMin(Default(maxBatchSize, 50), safeRemaining)

\* The operands <<used, limit>> with limit <= 200 and 0 <= used <= limit for
\* which the exact value of used / limit * 100 is k + 1/2 while the binary64
\* value of (used / limit) * 100 is the double just below k + 1/2 (for
\* instance (23 / 40) * 100 = 57.49999999999999)
BelowHalfInBinary64 ==
    {<<23, 40>>, <<46, 80>>, <<69, 120>>, <<92, 160>>, <<115, 200>>,
     <<113, 200>>, <<57, 200>>, <<29, 200>>}

\* Math.round((used / limit) * 100) in binary64, for limit > 0: Math.round
\* takes a value at k + 1/2 up to k + 1, and anything below it down to k
RoundedPercent(used, limit) ==
    IF <<used, limit>> \in BelowHalfInBinary64
    THEN (100 * used) \div limit
    ELSE (200 * used + limit) \div (2 * limit)

\* RateLimitUtils.getRateLimitUsagePercent(headers); with limit = 0 the
\* quotient is NaN or an infinity, which are not told apart here
getRateLimitUsagePercent(headers) ==
    IF headers.limit.nan \/ headers.remaining.nan THEN NaN
    ELSE IF headers.limit.v = 0 THEN NaN
    ELSE LET used == headers.limit.v - headers.remaining.v
         IN IF headers.limit.v > 0
            THEN Num(RoundedPercent(used, headers.limit.v))
            ELSE Num(RoundedPercent(0 - used, 0 - headers.limit.v))

\* the decimal digits of a natural number
RECURSIVE NatText(_)
NatText(n) ==
    IF n < 10 THEN <<Digits[n + 1]>>
    ELSE NatText(n \div 10) \o <<Digits[(n % 10) + 1]>>

\* String(x) of a number inside a template literal
NumberText(x) ==
    IF x.nan THEN <<"N", "a", "N">>
    ELSE IF x.v < 0 THEN <<"-">> \o NatText(0 - x.v)
    ELSE NatText(x.v)

TwoDigits(n) == IF n < 10 THEN <<"0">> \o NatText(n) ELSE NatText(n)

\* Date.prototype.toLocaleTimeString(): the time of day, here in the 24-hour
\* form h:mm:ss of a UTC locale
toLocaleTimeString(date) ==
    IF date.nan
    THEN <<"I", "n", "v", "a", "l", "i", "d", " ", "D", "a", "t", "e">>
    ELSE LET secs == (date.v \div 1000) % 86400
         IN TwoDigits(secs \div 3600) \o <<":">>
              \o TwoDigits((secs \div 60) % 60) \o <<":">>
              \o TwoDigits(secs % 60)

\* the fixed parts of the three messages
TextReached ==
    <<"R", "a", "t", "e", " ", "l", "i", "m", "i", "t", " ", "r", "e",
      "a", "c", "h", "e", "d", " ", "(", "0", "/">>
TextWarning ==
    <<"R", "a", "t", "e", " ", "l", "i", "m", "i", "t", " ", "w", "a",
      "r", "n", "i", "n", "g", ":", " ", "O", "n", "l", "y", " ">>
TextStatus ==
    <<"R", "a", "t", "e", " ", "l", "i", "m", "i", "t", " ", "s", "t",
      "a", "t", "u", "s", ":", " ">>
TextRequestsRemaining ==
    <<" ", "r", "e", "q", "u", "e", "s", "t", "s", " ", "r", "e", "m",
      "a", "i", "n", "i", "n", "g">>
TextResetsAt ==
    <<".", " ", "R", "e", "s", "e", "t", "s", " ", "a", "t", " ">>

\* variant: the warning tier reaches up to 10
getRateLimitStatus_WarnAtTen(headers) ==
    LET remaining == headers.remaining
        total == headers.limit
        resetTime == toLocaleTimeString(headers.reset)
    IN IF remaining = Num(0)
       THEN Str(TextReached \o NumberText(total) \o <<")">> \o TextResetsAt
                  \o resetTime)
       ELSE IF NumLe(remaining, Num(10))
            THEN Str(TextWarning \o NumberText(remaining) \o <<"/">>
                       \o NumberText(total) \o TextRequestsRemaining
                       \o TextResetsAt \o resetTime)
            ELSE Str(TextStatus \o NumberText(remaining) \o <<"/">>
                       \o NumberText(total) \o TextRequestsRemaining
                       \o TextResetsAt \o resetTime)

\* RateLimitUtils.getRateLimitStatus(headers)
getRateLimitStatus(headers) ==
    LET remaining == headers.remaining
        total == headers.limit
        resetTime == toLocaleTimeString(headers.reset)
    IN IF remaining = Num(0)
       THEN Str(TextReached \o NumberText(total) \o <<")">> \o TextResetsAt
                  \o resetTime)
       ELSE IF NumLe(remaining, Num(5))
            THEN Str(TextWarning \o NumberText(remaining) \o <<"/">>
                       \o NumberText(total) \o TextRequestsRemaining
                       \o TextResetsAt \o resetTime)
            ELSE Str(TextStatus \o NumberText(remaining) \o <<"/">>
                       \o NumberText(total) \o TextRequestsRemaining
                       \o TextResetsAt \o resetTime)

----------------------------------------------------------------------------
(* The pure functions of RateLimitUtils applied to bounded inputs *)

\* Date.now() at the application
UtilsNow == 10000

\* states that satisfy the data model: limit > 0 and 0 <= remaining <= limit
UtilsLimits == {40, 60, 120}
UtilsRemainings == {0, 1, 3, 5, 6, 10, 11, 15, 17, 25, 30, 51, 55, 60}
UtilsResets == {0, 10000, 10001, 40000}

UtilsState(l, r, s) ==
    [limit |-> Num(l), remaining |-> Num(r), reset |-> Num(s),
     retryAfter |-> Num(0)]

UtilsStates ==
    UNION {{UtilsState(l, r, s) :
               r \in {x \in UtilsRemainings : x <= l}, s \in UtilsResets} :
           l \in UtilsLimits}

\* the second argument of the functions that take one; Undefined is an
\* omitted argument
UtilsArgs ==
    {Undefined} \cup {Num(k) : k \in {-1, 0, 1, 5, 6, 10, 11, 20, 50, 56, 61}}

\* the remaining of the second state of a comparison
OtherRemainings == {0, 5, 6, 11, 40, 55, 60, 120}

\* what isRateLimitError and getRateLimitInfo may be handed: null,
\* undefined, transport errors, errors built by createRateLimitError, and
\* errors that have only one of the flag and the state
CreatedErrors ==
    {createRateLimitError(e, UtilsNow) :
        e \in {NetworkError(1), HttpError(1, 429, HFullA),
               HttpError(1, 429, HFullB), HttpError(1, 500, HNone)}}

UtilsErrors ==
    {Null, Undefined, NetworkError(1), HttpError(1, 429, HFullA),
     HttpError(1, 500, HNone),
     QuotaError(1, Null), UntypedErrorWithState(1, StateResetLater)}
      \cup CreatedErrors

UtilsInputs ==
    {[kind |-> "state", state |-> st, other |-> o, arg |-> a, error |-> Null] :
        st \in UtilsStates,
        o \in OtherRemainings,
        a \in UtilsArgs}
      \cup
    {[kind |-> "error", state |-> UtilsState(60, 0, 0), other |-> 0,
      arg |-> Undefined, error |-> e] : e \in UtilsErrors}

\* the state of the input with another remaining
OtherState == [uin.state EXCEPT !.remaining = Num(uin.other)]

\* uout after a function of the state was applied
Applied(op, value) ==
    /\ upc = "input"
    /\ uout' = [op |-> op, value |-> value]
    /\ upc' = "done"
    /\ UNCHANGED <<uin, ut, hvars, cvars, pvars, dvars, bvars, svars>>

\* getWaitTime(headers)
ApplyGetWaitTime ==
    /\ uin.kind = "state"
    /\ Applied("getWaitTime", getWaitTime(uin.state, ut))

\* calculateBatchDelay(headers, remainingOperations)
ApplyCalculateBatchDelay ==
    /\ uin.kind = "state"
    /\ uin.arg # Undefined
    /\ Applied("calculateBatchDelay",
               calculateBatchDelay(uin.state, uin.arg, ut))

\* getOptimalBatchSize(headers, maxBatchSize) on the state and on the state
\* with the other remaining
ApplyGetOptimalBatchSize ==
    /\ uin.kind = "state"
    /\ Applied("getOptimalBatchSize",
               <<getOptimalBatchSize(uin.state, uin.arg),
                 getOptimalBatchSize(OtherState, uin.arg)>>)

\* getRateLimitUsagePercent(headers)
ApplyGetRateLimitUsagePercent ==
    /\ uin.kind = "state"
    /\ Applied("getRateLimitUsagePercent", getRateLimitUsagePercent(uin.state))

\* getRateLimitStatus(headers)
ApplyGetRateLimitStatus ==
    /\ uin.kind = "state"
    /\ Applied("getRateLimitStatus", getRateLimitStatus(uin.state))

\* shouldPause(headers, threshold)
ApplyShouldPause ==
    /\ uin.kind = "state"
    /\ Applied("shouldPause", shouldPause(uin.state, uin.arg))

\* willExceedRateLimit(headers, additionalRequests)
ApplyWillExceedRateLimit ==
    /\ uin.kind = "state"
    /\ uin.arg # Undefined
    /\ Applied("willExceedRateLimit", willExceedRateLimit(uin.state, uin.arg))

\* three decimal digits
ThreeDigits(n) ==
    IF n < 10 THEN <<"0", "0">> \o NatText(n)
    ELSE IF n < 100 THEN <<"0">> \o NatText(n)
    ELSE NatText(n)

\* Date.prototype.toISOString() for an instant of 1970-01-01, the day of
\* every instant explored; it throws a RangeError for an invalid date
toISOString(date) ==
    IF date.nan THEN [thrown |-> "RangeError"]
    ELSE Str(<<"1", "9", "7", "0", "-", "0", "1", "-", "0", "1", "T">>
               \o toLocaleTimeString(date) \o <<".">>
               \o ThreeDigits(date.v % 1000) \o <<"Z">>)

\* variant: retryAfterSeconds is taken from remaining
formatRateLimitHeaders_WrongField(headers) ==
    [limit |-> headers.limit,
     remaining |-> headers.remaining,
     resetTime |-> toISOString(headers.reset),
     retryAfterSeconds |-> headers.remaining,
     usagePercent |-> getRateLimitUsagePercent(headers),
     status |-> getRateLimitStatus(headers)]

\* RateLimitUtils.formatRateLimitHeaders(headers)
formatRateLimitHeaders(headers) ==
    [limit |-> headers.limit,
     remaining |-> headers.remaining,
     resetTime |-> toISOString(headers.reset),
     retryAfterSeconds |-> headers.retryAfter,
     usagePercent |-> getRateLimitUsagePercent(headers),
     status |-> getRateLimitStatus(headers)]

\* formatRateLimitHeaders(headers)
ApplyFormatRateLimitHeaders ==
    /\ uin.kind = "state"
    /\ Applied("formatRateLimitHeaders", formatRateLimitHeaders(uin.state))

\* isRateLimitError(error) and getRateLimitInfo(error)
ApplyGetRateLimitInfo ==
    /\ upc = "input"
    /\ uin.kind = "error"
    /\ uout' = [op |-> "getRateLimitInfo",
                value |-> <<UtilsIsRateLimitError(uin.error),
                            getRateLimitInfo(uin.error)>>]
    /\ upc' = "done"
    /\ UNCHANGED <<uin, ut, hvars, cvars, pvars, dvars, bvars, svars>>

UtilsInit ==
    /\ uin \in UtilsInputs
    /\ ut = UtilsNow
    /\ uout = [op |-> "none"]
    /\ upc = "input"
    /\ HInitIdle
    /\ CInitIdle
    /\ PInitIdle
    /\ DInitIdle
    /\ BInitIdle
    /\ SInitIdle

UtilsNext ==
    \/ ApplyGetWaitTime
    \/ ApplyCalculateBatchDelay
    \/ ApplyGetOptimalBatchSize
    \/ ApplyGetRateLimitUsagePercent
    \/ ApplyGetRateLimitStatus
    \/ ApplyShouldPause
    \/ ApplyWillExceedRateLimit
    \/ ApplyFormatRateLimitHeaders
    \/ ApplyGetRateLimitInfo

UtilsSpec == UtilsInit /\ [][UtilsNext]_vars

----------------------------------------------------------------------------
(* Properties of the pure functions of RateLimitUtils *)

\* the least c with c * b >= a, for a > 0 and b > 0
LeastMultiple(a, b) == CHOOSE c \in 0..a : c * b >= a /\ (c - 1) * b < a

\* C23: getWaitTime(state) at time now is 0 when reset <= now, else the
\* ceiling of (reset - now) / remaining when remaining > 0, else reset - now;
\* it is never negative and never more than the time to reset.
C23_WaitTimeFormula ==
    uout.op = "getWaitTime" =>
        LET reset == uin.state.reset.v
            remaining == uin.state.remaining.v
        IN /\ ~uout.value.nan
           /\ uout.value.v =
                 IF reset <= ut THEN 0
                 ELSE IF remaining > 0
                      THEN LeastMultiple(reset - ut, remaining)
                      ELSE reset - ut
           /\ uout.value.v >= 0
           /\ reset <= ut => uout.value.v = 0
           /\ reset > ut => uout.value.v <= reset - ut

C23_Witness ==
    /\ uout.op = "getWaitTime"
    /\ uin.state.remaining = Num(11)
    /\ uin.state.reset = Num(40000)
    /\ uout.value = Num(2728)

\* C24: calculateBatchDelay(state, plannedOps) is 0 whenever plannedOps <=
\* remaining; otherwise the time to reset when remaining = 0, otherwise the
\* ceiling of the time to reset divided by remaining (0 once the reset has
\* passed); never negative.
C24_BatchDelayFormula ==
    uout.op = "calculateBatchDelay" =>
        LET reset == uin.state.reset.v
            remaining == uin.state.remaining.v
            plannedOps == uin.arg.v
            timeToReset == IF reset > ut THEN reset - ut ELSE 0
        IN /\ ~uout.value.nan
           /\ uout.value.v >= 0
           /\ uout.value.v =
                 IF plannedOps <= remaining THEN 0
                 ELSE IF remaining = 0 THEN timeToReset
                 ELSE IF timeToReset = 0 THEN 0
                 ELSE LeastMultiple(timeToReset, remaining)

\* the largest value a and b allow
Larger(a, b) == IF a >= b THEN a ELSE b
Smaller(a, b) == IF a <= b THEN a ELSE b

\* the maxBatchSize in effect
MaxInEffect == IF uin.arg = Undefined THEN 50 ELSE uin.arg.v

\* C25: for max >= 0, getOptimalBatchSize(state, max) lies in 0..max, and
\* of two states that differ only in remaining the one with the larger
\* remaining never gets the smaller size.
C25_BatchSizeBoundedAndMonotone ==
    (uout.op = "getOptimalBatchSize" /\ MaxInEffect >= 0) =>
        /\ ~uout.value[1].nan
        /\ ~uout.value[2].nan
        /\ uout.value[1].v \in 0..MaxInEffect
        /\ uout.value[2].v \in 0..MaxInEffect
        /\ uin.state.remaining.v <= uin.other =>
               uout.value[1].v <= uout.value[2].v
        /\ uin.other <= uin.state.remaining.v =>
               uout.value[2].v <= uout.value[1].v

C25_Witness ==
    /\ uout.op = "getOptimalBatchSize"
    /\ uin.arg = Num(20)
    /\ uin.state.limit = Num(60)
    /\ uin.state.remaining = Num(15)
    /\ uin.other = 55
    /\ uout.value = <<Num(9), Num(20)>>

C27_UsagePercentIsRoundedRatio ==
    uout.op = "getRateLimitUsagePercent" =>
        LET limit == uin.state.limit.v
            remaining == uin.state.remaining.v
        IN /\ ~uout.value.nan
           /\ uout.value.v = (200 * (limit - remaining) + limit) \div (2 * limit)
           /\ uout.value.v \in 0..100
           /\ remaining = 0 => uout.value.v = 100
           /\ remaining = limit => uout.value.v = 0

\* does the text s contain the text sub
Contains(s, sub) ==
    \E i \in 0..(Len(s) - Len(sub)) : SubSeq(s, i + 1, i + Len(sub)) = sub

SaysReached ==
    <<"R", "a", "t", "e", " ", "l", "i", "m", "i", "t", " ", "r", "e",
      "a", "c", "h", "e", "d">>
SaysWarning ==
    <<"R", "a", "t", "e", " ", "l", "i", "m", "i", "t", " ", "w", "a",
      "r", "n", "i", "n", "g">>
SaysStatus ==
    <<"R", "a", "t", "e", " ", "l", "i", "m", "i", "t", " ", "s", "t",
      "a", "t", "u", "s">>

\* C28: the message of getRateLimitStatus says "Rate limit reached" exactly
\* when remaining = 0, "Rate limit warning" exactly when 1 <= remaining <= 5,
\* and is the plain status otherwise; it always contains
\* "<remaining>/<limit>".
C28_StatusMessageTiers ==
    uout.op = "getRateLimitStatus" =>
        LET remaining == uin.state.remaining.v
            limit == uin.state.limit.v
            msg == uout.value.str
        IN /\ Contains(msg, SaysReached) <=> remaining = 0
           /\ Contains(msg, SaysWarning) <=> (1 <= remaining /\ remaining <= 5)
           /\ Contains(msg, SaysStatus) <=> remaining > 5
           /\ Contains(msg, NatText(remaining) \o <<"/">> \o NatText(limit))

C28_Witness ==
    /\ uout.op = "getRateLimitStatus"
    /\ uin.state.remaining = Num(5)
    /\ uin.state.limit = Num(60)
    /\ uin.state.reset = Num(40000)
    /\ Contains(uout.value.str, SaysWarning)
    /\ Contains(uout.value.str, <<"5", "/", "6", "0">>)
    /\ Contains(uout.value.str, <<"0", "0", ":", "0", "0", ":", "4", "0">>)

\* C29: willExceedRateLimit(state, n) is remaining < n; shouldPause(state,
\* t) is remaining <= t, with t = 10 when omitted; so shouldPause(state, t)
\* equals willExceedRateLimit(state, t + 1).
C29_PauseAndExceedCompareRemaining ==
    /\ uout.op = "willExceedRateLimit" =>
           (uout.value <=> uin.state.remaining.v < uin.arg.v)
    /\ uout.op = "shouldPause" =>
           /\ uout.value <=>
                  uin.state.remaining.v <=
                      (IF uin.arg = Undefined THEN 10 ELSE uin.arg.v)
           /\ uin.arg # Undefined =>
                  (uout.value <=>
                      willExceedRateLimit(uin.state, Num(uin.arg.v + 1)))

C29_Witness ==
    /\ uout.op = "shouldPause"
    /\ uin.arg = Num(10)
    /\ uin.state.remaining = Num(10)
    /\ uout.value = TRUE

\* C30: RateLimitUtils.isRateLimitError(e) holds exactly when e is neither
\* null nor undefined and e.isRateLimitError is true; getRateLimitInfo(e) is
\* the state of e when it holds and null otherwise; it is a state for every
\* error built by createRateLimitError.
C30_TypedErrorExposesItsState ==
    uout.op = "getRateLimitInfo" =>
        LET e == uin.error
            typed == e # Null /\ e # Undefined /\ e.isRateLimitError = TRUE
        IN /\ uout.value[1] <=> typed
           /\ uout.value[2] = IF typed THEN e.rateLimitHeaders ELSE Null
           /\ e \in CreatedErrors =>
                  /\ uout.value[1]
                  /\ uout.value[2] # Null
                  /\ uout.value[2].limit \in {Num(60), Num(100)}

C30_Witness ==
    /\ uout.op = "getRateLimitInfo"
    /\ uin.error = createRateLimitError(HttpError(1, 500, HNone), UtilsNow)
    /\ uout.value[1]
    /\ uout.value[2].reset = Num(70000)

\* C31: the record of formatRateLimitHeaders(state) repeats limit, remaining
\* and retryAfter of the state (the last as retryAfterSeconds), its
\* usagePercent is getRateLimitUsagePercent(state), its status is
\* getRateLimitStatus(state) and its resetTime is the ISO text of reset; the
\* state is left as it was.
C31_FormattedRecordRepeatsState ==
    uout.op = "formatRateLimitHeaders" =>
        /\ uout.value.limit = uin.state.limit
        /\ uout.value.remaining = uin.state.remaining
        /\ uout.value.retryAfterSeconds = uin.state.retryAfter
        /\ uout.value.usagePercent = getRateLimitUsagePercent(uin.state)
        /\ uout.value.status = getRateLimitStatus(uin.state)
        /\ Contains(uout.value.status.str,
                    NatText(uin.state.remaining.v) \o <<"/">>
                        \o NatText(uin.state.limit.v))
        /\ Len(uout.value.resetTime.str) = 24
        /\ uin \in UtilsInputs

C31_Witness ==
    /\ uout.op = "formatRateLimitHeaders"
    /\ uin.state.limit = Num(60)
    /\ uin.state.remaining = Num(25)
    /\ uin.state.reset = Num(40000)
    /\ uout.value.usagePercent = Num(58)
    /\ Contains(uout.value.status.str, <<"2", "5", "/", "6", "0">>)
    /\ uout.value.resetTime =
           Str(<<"1", "9", "7", "0", "-", "0", "1", "-", "0", "1", "T", "0",
                 "0", ":", "0", "0", ":", "4", "0", ".", "0", "0", "0", "Z">>)

----------------------------------------------------------------------------
(* Ordering and isolation *)

\* C32: during one API call through a client with enableRateLimit = true,
\* onRateLimitHit fires at most once and the attempts handed to
\* onRateLimitRetry are 1, 2, ..., k in this order.
C32_ClientCallbacksPerCall ==
    copts.enableRateLimit =>
        /\ Len(chits) <= 1
        /\ \A i \in 1..Len(cretries) : cretries[i] = i

\* how many entries of the trace up to position i are the given step
CountIn(i, step) == Cardinality({j \in 1..i : trace[j] = step})

\* C33: in one call sequence of handleRateLimit each reissue is preceded by
\* exactly one sleep, the callbacks of a retry come before its sleep
\* (onRateLimitHit only before the first sleep, then onRateLimitRetry), a
\* reissue is sent only when every earlier request has failed, and at most
\* one request is outstanding.
C33_HandlerStepsStrictlyOrdered ==
    pc # "done" \/ requests > 0 =>
        /\ trace[1] = "request"
        /\ \A i \in 2..Len(trace) :
             /\ trace[i] = "request" => trace[i - 1] = "sleep"
             /\ trace[i - 1] = "sleep" => trace[i] = "request"
             /\ trace[i - 1] = "hit" =>
                    /\ trace[i] \in {"retry", "sleep"}
                    /\ CountIn(i - 1, "sleep") = 0
                    /\ CountIn(i - 1, "hit") = 1
             /\ trace[i - 1] = "retry" => trace[i] = "sleep"
             /\ trace[i - 1] \in {"throw", "return"} => FALSE
             /\ trace[i] = "sleep" =>
                    trace[i - 1] \in {"request", "hit", "retry"}
        /\ CountIn(Len(trace), "request") = requests
        /\ CountIn(Len(trace), "sleep") = Len(sleeps)
        /\ CountIn(Len(trace), "hit") = Len(hits)
        /\ CountIn(Len(trace), "retry") = Len(retries)
        /\ Len(sleeps) \in {requests - 1, requests}
        /\ pc = "sleeping" <=> Len(sleeps) = requests
        /\ pc = "sleeping" => Len(failures) = requests
        /\ pc = "retrying" => Len(failures) = requests - 1
        /\ requests - Len(failures) \in {0, 1}
        /\ requests - Len(failures) = 1 =>
               (pc = "retrying" \/ result.kind = "returned")

C33_Witness ==
    /\ pc = "done"
    /\ trace = <<"request", "hit", "retry", "sleep", "request", "retry",
                 "sleep", "request", "sleep", "request", "return">>

\* how many events before position i are of a kind
CountBefore(i, ev) == Cardinality({j \in 1..(i - 1) : blog[j].ev = ev})

\* C34: in a run of processAll the processor is invoked on the next item
\* only when every earlier invocation has settled and been recorded, every
\* sleep started after a quota failure has ended, and (with a callback) the
\* progress of every earlier item has been reported; so at most one
\* invocation is in flight.
C34_OneItemOperationInFlight ==
    FreshRun =>
        /\ Len(Calls) - Len(bouts) \in {0, 1}
        /\ Len(Calls) - Len(bouts) = 1 <=> bpc = "awaiting"
        /\ Len(bresults) + Len(berrors) = Len(bouts)
        /\ CountBefore(Len(blog) + 1, "sleep")
               - CountBefore(Len(blog) + 1, "wake") = IF bpc = "waiting" THEN 1
                                                      ELSE 0
        /\ \A j \in 1..Len(blog) :
             IsCall(blog[j]) =>
                 /\ SettledBefore(j) = CalledBefore(j)
                 /\ CountBefore(j, "sleep") = CountBefore(j, "wake")
                 /\ bcb => Cardinality({i \in PlainProgress : i < j})
                               = CalledBefore(j)
                 /\ blog[j].completed = CalledBefore(j)

C34_Witness ==
    /\ bpc = "done"
    /\ bruns = 1
    /\ bcb
    /\ Len(bitems) = 3
    /\ bsize = 3
    /\ QuotaFailureWithState(2)
    /\ CountBefore(Len(blog), "wake") = 1
    /\ bouts[1].ok
    /\ bouts[3].ok

IsOk(o) == o.ok
IsFailure(o) == ~o.ok

\* C36: what a fresh processor returns: results are the values of the items
\* that succeeded, in input order; errors are the (item, error) pairs of the
\* items that failed, in input order, each error with the item whose
\* invocation raised it; every item is in exactly one of the two.
C36_ResultsAndErrorsInInputOrder ==
    (FreshRun /\ bpc = "done") =>
        LET succeeded == SelectSeq(bouts, IsOk)
            failed == SelectSeq(bouts, IsFailure)
        IN /\ Len(bouts) = Len(bitems)
           /\ \A k \in 1..Len(bouts) :
                /\ bouts[k].item = bitems[k]
                /\ bouts[k].ok => bouts[k].settled = Processed(bitems[k])
                /\ ~bouts[k].ok => bouts[k].settled.id = k
           /\ bret.value.results =
                  [i \in 1..Len(succeeded) |-> succeeded[i].settled]
           /\ bret.value.errors =
                  [i \in 1..Len(failed) |->
                      [item |-> failed[i].item, error |-> failed[i].settled]]
           /\ \A k \in 1..Len(bitems) :
                (\E i \in 1..Len(bret.value.results) :
                    bret.value.results[i] = Processed(bitems[k]))
                  <=> ~(\E i \in 1..Len(bret.value.errors) :
                          bret.value.errors[i].item = bitems[k])

C36_Witness ==
    /\ bpc = "done"
    /\ bruns = 1
    /\ bsize = 2
    /\ bret.kind = "resolved"
    /\ bret.value.results = <<Processed(10), Processed(30)>>
    /\ Len(bret.value.errors) = 1
    /\ bret.value.errors[1].item = 20
    /\ bret.value.errors[1].error = QuotaError(2, StateSomeLeft)

----------------------------------------------------------------------------
(* Two call chains on one RateLimitHandler *)

ChainIds == {1, 2}

SharedOptions ==
    [rateLimitRetryAttempts : 0..MaxSharedAttempts,
     rateLimitRetryDelay : {1000},
     onRateLimitHit : BOOLEAN,
     onRateLimitRetry : {TRUE}]

\* what a request of a chain can have failed with
SharedFailures(id) ==
    {HttpError(id, 429, HFullA), HttpError(id, 429, HNone), NetworkError(id)}

\* variant: the attempt counter is a field of the handler, advanced by
\* every chain
AttemptOf_OnInstance(c, chs) ==
    IF \A d \in ChainIds : chs[d].attempt <= chs[c].attempt
    THEN chs[c].attempt
    ELSE CHOOSE a \in 0..(MaxSharedAttempts + 2) :
           /\ \E d \in ChainIds : chs[d].attempt = a
           /\ \A d \in ChainIds : chs[d].attempt <= a

\* the attempt parameter of the chain's own invocation of handleRateLimit
AttemptOf(c, chs) == chs[c].attempt

\* one invocation handleRateLimit(e, retryFn, a) of chain c up to its first
\* await, on the shared handler; chs holds what the chains have seen so far
SharedInvoke(chs, c, e, a) ==
    LET p == Pass(e, a, shopts, sclock)
        ch == chs[c]
    IN chains' = [chs EXCEPT ![c] =
         IF p.throws
         THEN [ch EXCEPT !.error = e, !.attempt = a, !.pc = "done",
                         !.result = [kind |-> "thrown", error |-> p.error]]
         ELSE [ch EXCEPT !.error = e, !.attempt = a, !.pc = "sleeping",
                         !.hits = ch.hits \o p.hits,
                         !.retries = ch.retries \o p.retries,
                         !.sleeps = Append(ch.sleeps, p.ms),
                         !.wake = sclock + TimerMs(p.ms)]]

\* a chain hands the failure of its original request to the handler
SharedHandleRateLimit ==
    /\ \E c \in ChainIds :
         /\ chains # <<>>
         /\ chains[c].pc = "start"
         /\ SharedInvoke(chains, c, chains[c].error, 0)
    /\ UNCHANGED <<shopts, sclock, hvars, cvars, pvars, dvars, bvars, uvars>>

\* the timer of a chain fires, earliest deadline first, and its retryFn
\* issues the request again
SharedSleepElapsed ==
    /\ \E c \in ChainIds :
         /\ chains # <<>>
         /\ chains[c].pc = "sleeping"
         /\ \A d \in ChainIds :
              chains[d].pc = "sleeping" => chains[c].wake <= chains[d].wake
         /\ sclock' = IF chains[c].wake > sclock THEN chains[c].wake
                      ELSE sclock
         /\ chains' = [chains EXCEPT ![c].pc = "retrying",
                                     ![c].requests = @ + 1]
    /\ UNCHANGED <<shopts, hvars, cvars, pvars, dvars, bvars, uvars>>

\* the retryFn of a chain resolves
SharedRetrySucceeds ==
    /\ \E c \in ChainIds :
         /\ chains # <<>>
         /\ chains[c].pc = "retrying"
         /\ chains' = [chains EXCEPT
              ![c].pc = "done",
              ![c].result = [kind |-> "returned",
                             value |-> Returned(Str(<<"o", "k">>))]]
    /\ UNCHANGED <<shopts, sclock, hvars, cvars, pvars, dvars, bvars, uvars>>

\* the retryFn of a chain rejects
SharedRetryFails ==
    /\ \E c \in ChainIds :
         /\ chains # <<>>
         /\ chains[c].pc = "retrying"
         /\ \E e \in SharedFailures(chains[c].requests) :
              LET seen == [chains EXCEPT ![c].failures = Append(@, e)]
              IN IF RecursesOn(e)
                 THEN SharedInvoke(seen, c, e, AttemptOf(c, chains) + 1)
                 ELSE chains' = [seen EXCEPT
                        ![c].pc = "done",
                        ![c].result = [kind |-> "thrown", error |-> e]]
    /\ UNCHANGED <<shopts, sclock, hvars, cvars, pvars, dvars, bvars, uvars>>

NewChain(e) ==
    [pc |-> "start", error |-> e, attempt |-> 0, wake |-> 0,
     failures |-> <<e>>, requests |-> 1, sleeps |-> <<>>, hits |-> <<>>,
     retries |-> <<>>, result |-> Pending]

SharedInit ==
    /\ shopts \in SharedOptions
    /\ chains \in [ChainIds -> {NewChain(e) : e \in SharedFailures(1)}]
    /\ sclock = 0
    /\ HInitIdle
    /\ CInitIdle
    /\ PInitIdle
    /\ DInitIdle
    /\ BInitIdle
    /\ UInitIdle

SharedNext ==
    \/ SharedHandleRateLimit
    \/ SharedSleepElapsed
    \/ SharedRetrySucceeds
    \/ SharedRetryFails

SharedSpec == SharedInit /\ [][SharedNext]_vars

----------------------------------------------------------------------------
(* Properties of the shared handler *)


\* what chain ch shows, judged against its own failures alone
AsAlone(ch) ==
    LET n == shopts.rateLimitRetryAttempts
    IN /\ ch.requests - 1 <= n
       /\ Len(ch.sleeps) <= n
       /\ ch.pc \in {"sleeping", "retrying"} =>
            /\ ch.attempt = Len(ch.sleeps) - 1
            /\ ch.requests = ch.attempt + IF ch.pc = "retrying" THEN 2 ELSE 1
       /\ \A k \in 1..Len(ch.sleeps) :
            ch.sleeps[k] = DelayMs(ErrorHeaders(ch.failures[k]), k - 1, shopts)
       /\ ch.hits = IF ch.sleeps = <<>> THEN <<>>
                    ELSE HitCalls(ErrorHeaders(ch.failures[1]), 0, shopts)
       /\ Len(ch.hits) <= 1
       /\ ch.pc = "done" /\ ch.result.kind = "thrown"
            /\ ch.result.error.isRateLimitError =>
            \/ ~isRateLimitError(Last(ch.failures))
            \/ Len(ch.sleeps) = n

\* C35: when two call chains use one RateLimitHandler and their steps
\* interleave, each chain's attempt counter, number of reissues (at most
\* rateLimitRetryAttempts), delays and single onRateLimitHit firing follow
\* from that chain's own failures, and no step changes the handler's
\* configured attempts, base delay or callbacks
C35_ChainsDoNotInterfere ==
    /\ [](chains # <<>> => \A c \in ChainIds : AsAlone(chains[c]))
    /\ [][shopts' = shopts]_vars

\* chain 1 is in its second sleep while chain 2 is reissuing for the first
\* time, each having fired its own onRateLimitHit
C35_Witness ==
    /\ chains # <<>>
    /\ chains[1].pc = "sleeping" /\ chains[1].attempt = 1
    /\ chains[2].pc = "retrying" /\ chains[2].attempt = 0
    /\ Len(chains[1].hits) = 1 /\ Len(chains[2].hits) = 1
    /\ chains[1].sleeps[2] # chains[2].sleeps[1]

----------------------------------------------------------------------------
(* Properties of a processor that is run twice *)

\* C37: every call of processAll on a processor, a second call on the same
\* instance included, returns results and errors of that call's run only:
\* together they have one entry per item
C37_ReturnDescribesOwnRun ==
    (bpc = "done" /\ bruns >= 1) =>
        /\ bret.kind = "resolved"
        /\ Len(bret.value.results) + Len(bret.value.errors) = Len(bitems)

----------------------------------------------------------------------------
(* Properties of processAll with any integer batchSize *)

\* the run has returned and the processor was invoked once on each item
TerminatedWithEveryItemOnce ==
    /\ bpc = "done"
    /\ Len(Calls) = Len(bitems)
    /\ \A k \in 1..Len(bitems) : Calls[k].item = bitems[k]

\* C38: processAll terminates for every finite item list and every integer
\* batchSize, 0 and negative values included, when every per-item operation
\* settles and every wait is finite; on termination each item has been
\* processed exactly once
C38_TerminatesForEveryBatchSize ==
    (bruns = 1) ~> TerminatedWithEveryItemOnce

----------------------------------------------------------------------------
(* Properties of parseRateLimitHeaders, continued *)

\* the header map with every name in lower case
LowerCased(h) ==
    [k \in {LowerCaseKey(x) : x \in DOMAIN h} |->
        h[CHOOSE x \in DOMAIN h : LowerCaseKey(x) = k]]

\* the text of a header is a decimal integer without sign
IsNatText(x) ==
    /\ x # Undefined
    /\ x.str # <<>>
    /\ \A i \in 1..Len(x.str) : IsDigit(x.str[i])

\* C39: parseRateLimitHeaders finds the four required headers whatever the
\* letter case of their keys: a map holding them under keys that differ from
\* the lower-case names only in case yields the same state as the lower-case
\* map, and when all four are present, a 0 for remaining or retry-after
\* included, the state holds the integer values of the headers
C39_HeaderKeysCaseInsensitive ==
    pout.op = "parseRateLimitHeaders" =>
        LET low == LowerCased(pin.response.headers)
        IN /\ pout.state = parseRateLimitHeaders([headers |-> low])
           /\ (/\ DOMAIN low = RequiredKeys
               /\ \A k \in RequiredKeys : IsNatText(low[k])) =>
                  /\ pout.state # Null
                  /\ pout.state.limit =
                       Num(DigitRun(low["x-ratelimit-limit"].str, 0))
                  /\ pout.state.remaining =
                       Num(DigitRun(low["x-ratelimit-remaining"].str, 0))
                  /\ pout.state.retryAfter =
                       Num(DigitRun(low["x-ratelimit-retry-after"].str, 0))

====
